---------------------------- MODULE Spec2Model ----------------------------
(***************************************************************************)
(* atomic-di: the provider resolution protocol (mockable / transient /     *)
(* singleton / scoped of src/src/provider.ts), the mock registries          *)
(* (src/src/mocks.ts, src/src/readonly-map.ts, src/src/mock-map.ts), the    *)
(* scope (src/src/scope.ts) and bulk resolution                             *)
(* (src/src/collection-resolution.ts).                                      *)
(*                                                                         *)
(* A provider call is synchronous JavaScript, so one call, with every      *)
(* nested call it makes, is one atomic step.  Promise settlement and the   *)
(* reaction registered by `.then` are separate steps.                      *)
(*                                                                         *)
(* Specifications: Spec (the protocol with mocks), SpecReg (the            *)
(* registries), SpecDep (forwarding resolvers and providers sharing a      *)
(* resolver), SpecKeyed (the scoped provider of src/unnamed/part_003       *)
(* beside the one of provider.ts), SpecBulk (resolveList / resolveMap).    *)
(***************************************************************************)
EXTENDS Integers, Sequences, FiniteSets, TLC

VARIABLES
    behaviour,  \* what each user resolver does when invoked
    heap,       \* the objects created so far: heap[i] maps a key to its value
    promises,   \* the promises created so far
    cell,       \* resolved / resolution of every singleton closure
    scopes,     \* the scopes (Map) the callers created
    invoked,    \* invoked[f]: how often the user resolver f has run
    last,       \* the last provider call: provider, context, outcome and
                \* the resolver invocations it made, in order
    regs,       \* the mock registries created so far
    regop,      \* the last registry operation: operands and result
    colls,      \* the arrays and keyed objects the bulk functions created
    bulk        \* the last bulk call: input, context, outcome

vars == <<behaviour, heap, promises, cell, scopes, invoked, last, regs, regop,
          colls, bulk>>

(***************************************************************************)
(* Bounds                                                                  *)
(***************************************************************************)
MaxInvoked == 2
MaxRegs == 5
MaxDepth == 4
MaxBulk == 2
MaxPartial == 3

(***************************************************************************)
(* Values.  Every value is a record [t, id] so that any two are comparable. *)
(***************************************************************************)
UndefinedV == [t |-> "undefined", id |-> 0]
Absent == [t |-> "absent", id |-> 0]
Obj(i) == [t |-> "obj", id |-> i]
Prom(i) == [t |-> "promise", id |-> i]
IsPromise(v) == v.t = "promise"
\* a number, string or boolean; null
PrimV == [t |-> "prim", id |-> 0]
NullV == [t |-> "null", id |-> 0]
\* 0, the empty string or false
FalsyV == [t |-> "falsy", id |-> 0]

Keys == {"a", "b", "c"}
NoField == "-"

(***************************************************************************)
(* The providers of the model.  pT, pS and pC are the providers under      *)
(* test, mF is a provider used as a replacement.  pC.fb is the singleton   *)
(* that scoped() creates internally as its fallback; it is not reachable   *)
(* by user code and so is never a registry key.                            *)
(***************************************************************************)
Providers == {"pT", "pS", "pC", "mF"}

\* pC2 = scoped(r) for the very resolver function r that pC was built from
Twins == {"pC2"}
\* pR = scoped(rR) as src/unnamed/part_003 builds a scoped provider
Keyed == {"pR"}
\* pE = transient((context) => pC(context)),
\* pE2 = transient((context) => pE(context))
Forwarders == {"pE", "pE2"}
\* pL = createProvider("scoped", rL), the lifetime-parameterised build of
\* src/src/provider.ts 332-353
Lifetimed == {"pL"}
\* pJ = transient((context) => { pC(context); return pC(context) }),
\* pK = transient((context) => { pE(context); return pE2(context) })
Pairs == {"pJ", "pK"}
\* pG = scoped(rG) as src/unnamed/part_010 builds a scoped provider: with
\* no scope in the context it uses the globalScope of the module, and
\* pG.gs is the entry of pG in that scope
Globals == {"pG"}
AllProviders ==
    Providers \cup Twins \cup Keyed \cup Forwarders \cup Lifetimed \cup Pairs
        \cup Globals

Singletons == {"pS", "pC.fb", "pC2.fb", "pR.fb", "pG.gs"}
Instances == AllProviders \cup {"pC.fb", "pC2.fb", "pR.fb"}
\* the user resolver functions that create a value
Resolvers == Providers \cup {"rR", "rL", "rG"}
\* whatever is used as the key of a scope entry
ScopeKeys == AllProviders \cup {"rR"}
Scopes == {"s1", "s2"}
NoScope == "none"

Kind(i) ==
    CASE i \in {"pT", "mF", "pE", "pE2", "pJ", "pK"} -> "transient"
      [] i \in Singletons -> "singleton"
      [] i \in {"pC", "pC2"} -> "scoped"
      [] i = "pR" -> "scopedByResolver"
      [] i = "pL" -> "scopedOfLifetime"
      [] i = "pG" -> "scopedGlobal"

\* the user resolver an instance was built from
ResolverOf(i) ==
    CASE i \in {"pC", "pC.fb", "pC2", "pC2.fb"} -> "pC"
      [] i \in {"pR", "pR.fb"} -> "rR"
      [] i = "pL" -> "rL"
      [] i \in {"pG", "pG.gs"} -> "rG"
      [] OTHER -> i
singletonFallback(i) ==
    CASE i = "pC" -> "pC.fb"
      [] i = "pC2" -> "pC2.fb"
      [] i = "pR" -> "pR.fb"
\* the entry of a scoped provider of part_010 in globalScope
globalScope(i) == "pG.gs"
\* the provider a forwarding resolver calls
Dependency(f) == IF f = "pE" THEN "pC" ELSE "pE"
\* the providers a resolver with two dependencies calls, in order
Dependencies(f) == IF f = "pJ" THEN <<"pC", "pC">> ELSE <<"pE", "pE2">>

\* the object a user resolver creates: every field holds the resolver's name
ResolverKeys(f) == IF f = "mF" THEN {"b", "c"} ELSE {"a", "b"}
NewFields(f) == [k \in Keys |-> IF k \in ResolverKeys(f) THEN f ELSE NoField]
KeysOf(fields) == {k \in Keys : fields[k] # NoField}

Behaviours(f) == {"sync", "async", "throw"}

(***************************************************************************)
(* Mock registries.  `entries` is the array the closure holds.             *)
(***************************************************************************)
NoMock == [found |-> FALSE, isPartial |-> FALSE, provider |-> "-"]
Entry(key, isPartial, provider) ==
    [key |-> key, isPartial |-> isPartial, provider |-> provider]

RECURSIVE find(_, _)
find(entries, key) ==
    IF entries = <<>> THEN NoMock
    ELSE IF Head(entries).key = key
         THEN [found |-> TRUE, isPartial |-> Head(entries).isPartial,
               provider |-> Head(entries).provider]
         ELSE find(Tail(entries), key)

RECURSIVE filterOut(_, _)
filterOut(entries, keys) ==
    IF entries = <<>> THEN <<>>
    ELSE IF Head(entries).key \in keys THEN filterOut(Tail(entries), keys)
         ELSE <<Head(entries)>> \o filterOut(Tail(entries), keys)

EntryKeys(entries) == {entries[n].key : n \in DOMAIN entries}

\* mocks.ts
mocksGetByResolver(entries, original) ==
    LET hits == {n \in DOMAIN entries :
                    ResolverOf(entries[n].key) = ResolverOf(original)}
        first == CHOOSE n \in hits : \A m \in hits : n <= m
    IN  IF hits = {} THEN NoMock
        ELSE [found |-> TRUE, isPartial |-> entries[first].isPartial,
              provider |-> entries[first].provider]

mocksGet(entries, original) == find(entries, original)
mocksSetKeepsOld(entries, key, isPartial, provider) ==
    entries \o <<Entry(key, isPartial, provider)>>

mocksSet(entries, key, isPartial, provider) ==
    filterOut(entries, {key}) \o <<Entry(key, isPartial, provider)>>
mock(entries, original, m) == mocksSet(entries, original, FALSE, m)
mockPartially(entries, original, m) == mocksSet(entries, original, TRUE, m)

\* entries.map((entry) => entry[0] === key ? [entry[0], value] : entry)
replaceValue(entries, key, value) ==
    [n \in DOMAIN entries |->
        IF entries[n].key = key THEN Entry(key, FALSE, value) ELSE entries[n]]

\* readonly-map.ts
mapGet(entries, key) == find(entries, key)
mapSet(entries, key, value) ==
    IF mapGet(entries, key).found THEN replaceValue(entries, key, value)
    ELSE entries \o <<Entry(key, FALSE, value)>>
mapMergeReceiverWins(entries, other) ==
    entries \o filterOut(other, EntryKeys(entries))

mapMerge(entries, other) ==
    filterOut(entries, {k \in EntryKeys(entries) : mapGet(other, k).found})
        \o other

\* mock-map.ts
map(entries, provider) ==
    IF find(entries, provider).found THEN find(entries, provider).provider
    ELSE provider
add(entries, provider, replacement) ==
    LET newEntries == replaceValue(entries, provider, replacement)
    IN  IF Len(newEntries) = Len(entries)
        THEN newEntries \o <<Entry(provider, FALSE, replacement)>>
        ELSE newEntries
apply(entries, otherEntries) ==
    filterOut(entries, EntryKeys(otherEntries)) \o otherEntries

(***************************************************************************)
(* Resolution contexts.  A call is made without a context (undefined) or   *)
(* with an object {scope?, mocks?}; mocks is the index of a registry in    *)
(* regs, 0 when the field is missing.                                      *)
(***************************************************************************)
NoContext == [defined |-> FALSE, scope |-> NoScope, mocks |-> 0]
Context(scope, mocks) == [defined |-> TRUE, scope |-> scope, mocks |-> mocks]
Contexts ==
    {NoContext} \cup
    ({Context(s, m) : s \in Scopes \cup {NoScope}, m \in 0..Len(regs)}
        \ {Context(NoScope, 0)})

\* context?.mocks?.get(instance)
ContextMock(ctx, i) ==
    IF ctx.mocks = 0 THEN NoMock ELSE mocksGet(regs[ctx.mocks].entries, i)

(***************************************************************************)
(* The mutable state a call works on, and the outcome of a call.           *)
(***************************************************************************)
Current ==
    [heap |-> heap, promises |-> promises, cell |-> cell, scopes |-> scopes,
     invoked |-> invoked, trace |-> <<>>]

Ok(st, v) == [st |-> st, status |-> "ok", ret |-> v]
Throw(st) == [st |-> st, status |-> "throw", ret |-> UndefinedV]
Overflow(st) == [st |-> st, status |-> "overflow", ret |-> UndefinedV]

NewPromise(kind, value, a, b) ==
    [kind |-> kind, state |-> "pending", value |-> value, a |-> a, b |-> b]

\* Object.assign(target, source): the fields of source overwrite target's
ObjectAssignWrong(h, target, source) ==
    [h EXCEPT ![target.id] =
        [k \in Keys |-> IF @[k] # NoField THEN @[k] ELSE h[source.id][k]]]

ObjectAssign(h, target, source) ==
    [h EXCEPT ![target.id] =
        [k \in Keys |-> IF h[source.id][k] # NoField THEN h[source.id][k]
                        ELSE @[k]]]

\* A user resolver f invoked with ctx: it creates a new object and returns
\* it, or returns a promise of it (an async function), or throws.
Resolve(f, ctx, st) ==
    LET st1 == [st EXCEPT !.invoked[f] = @ + 1,
                          !.trace = Append(@, [f |-> f, ctx |-> ctx])]
    IN  CASE behaviour[f] = "sync" ->
               Ok([st1 EXCEPT !.heap = Append(@, NewFields(f))],
                  Obj(Len(st.heap) + 1))
          [] behaviour[f] = "async" ->
               Ok([st1 EXCEPT !.heap = Append(@, NewFields(f)),
                              !.promises =
                      Append(@, NewPromise("resolver", Obj(Len(st.heap) + 1),
                                           UndefinedV, UndefinedV))],
                  Prom(Len(st.promises) + 1))
          [] behaviour[f] = "throw" -> Throw(st1)
          [] behaviour[f] = "primitive" -> Ok(st1, PrimV)
          [] behaviour[f] = "nullish" -> Ok(st1, NullV)
          [] behaviour[f] = "falsy" -> Ok(st1, FalsyV)

\* transient = mockable: the wrapped function is the user resolver itself
transientCached(i, ctx, st) ==
    IF st.invoked[ResolverOf(i)] > 0 /\ st.heap # <<>>
    THEN Ok(st, Obj(Len(st.heap)))
    ELSE Resolve(ResolverOf(i), ctx, st)

transientResolver(i, ctx, st) == Resolve(ResolverOf(i), ctx, st)

\* the closure singleton() passes to mockable
singletonNeverResolved(i, ctx, st) ==
    Resolve(ResolverOf(i), ctx, st)

singletonMarksFirst(i, ctx, st) ==
    IF st.cell[i].resolved THEN Ok(st, st.cell[i].resolution)
    ELSE LET r == Resolve(ResolverOf(i), ctx, st)
         IN  IF r.status # "ok"
             THEN [r EXCEPT !.st.cell[i] =
                      [resolved |-> TRUE, resolution |-> UndefinedV]]
             ELSE [r EXCEPT !.st.cell[i] =
                      [resolved |-> TRUE, resolution |-> r.ret]]

singletonRemembersSettled(i, ctx, st) ==
    IF /\ st.cell[i].resolved
       /\ ~(/\ IsPromise(st.cell[i].resolution)
            /\ st.promises[st.cell[i].resolution.id].state = "pending")
    THEN Ok(st, st.cell[i].resolution)
    ELSE LET r == Resolve(ResolverOf(i), ctx, st)
         IN  IF r.status # "ok" THEN r
             ELSE [r EXCEPT !.st.cell[i] =
                      [resolved |-> TRUE, resolution |-> r.ret]]

singletonResolver(i, ctx, st) ==
    IF st.cell[i].resolved THEN Ok(st, st.cell[i].resolution)
    ELSE LET r == Resolve(ResolverOf(i), ctx, st)
         IN  IF r.status # "ok" THEN r
             ELSE [r EXCEPT !.st.cell[i] =
                      [resolved |-> TRUE, resolution |-> r.ret]]

RECURSIVE mockable(_, _, _, _)
RECURSIVE wrapped(_, _, _, _)

\* the closure scoped() passes to mockable
scopedNoHas(i, ctx, st, d) ==
    IF ctx.scope = NoScope THEN mockable(singletonFallback(i), ctx, st, d)
    ELSE LET r == Resolve(ResolverOf(i), ctx, st)
         IN  IF r.status # "ok" THEN r
             ELSE [r EXCEPT !.st.scopes[ctx.scope][i] = r.ret]

scopedNoFallback(i, ctx, st, d) ==
    IF ctx.scope = NoScope THEN Resolve(ResolverOf(i), ctx, st)
    ELSE LET r == IF st.scopes[ctx.scope][i] # Absent
                  THEN Ok(st, st.scopes[ctx.scope][i])
                  ELSE Resolve(ResolverOf(i), ctx, st)
         IN  IF r.status # "ok" THEN r
             ELSE [r EXCEPT !.st.scopes[ctx.scope][i] = r.ret]

scopedFallbackNoContext(i, ctx, st, d) ==
    IF ctx.scope = NoScope THEN mockable(singletonFallback(i), NoContext, st, d)
    ELSE LET r == IF st.scopes[ctx.scope][i] # Absent
                  THEN Ok(st, st.scopes[ctx.scope][i])
                  ELSE Resolve(ResolverOf(i), ctx, st)
         IN  IF r.status # "ok" THEN r
             ELSE [r EXCEPT !.st.scopes[ctx.scope][i] = r.ret]

scopedSharesFallback(i, ctx, st, d) ==
    IF ctx.scope = NoScope THEN mockable(singletonFallback(i), ctx, st, d)
    ELSE LET r == IF st.scopes[ctx.scope][i] # Absent
                  THEN Ok(st, st.scopes[ctx.scope][i])
                  ELSE IF st.cell[singletonFallback(i)].resolved
                  THEN Ok(st, st.cell[singletonFallback(i)].resolution)
                  ELSE Resolve(ResolverOf(i), ctx, st)
         IN  IF r.status # "ok" THEN r
             ELSE [r EXCEPT !.st.scopes[ctx.scope][i] = r.ret]

scopedResolver(i, ctx, st, d) ==
    IF ctx.scope = NoScope THEN mockable(singletonFallback(i), ctx, st, d)
    ELSE LET r == IF st.scopes[ctx.scope][i] # Absent
                  THEN Ok(st, st.scopes[ctx.scope][i])
                  ELSE Resolve(ResolverOf(i), ctx, st)
         IN  IF r.status # "ok" THEN r
             ELSE [r EXCEPT !.st.scopes[ctx.scope][i] = r.ret]

\* the closure scoped() of src/unnamed/part_003 passes to mockable: the
\* scope entry is kept under the resolver function, not under the instance
scopedByResolver(i, ctx, st, d) ==
    IF ctx.scope = NoScope THEN mockable(singletonFallback(i), ctx, st, d)
    ELSE LET r == IF st.scopes[ctx.scope][ResolverOf(i)] # Absent
                  THEN Ok(st, st.scopes[ctx.scope][ResolverOf(i)])
                  ELSE Resolve(ResolverOf(i), ctx, st)
         IN  IF r.status # "ok" THEN r
             ELSE [r EXCEPT !.st.scopes[ctx.scope][ResolverOf(i)] = r.ret]

\* the provider createProvider("scoped", resolver) returns, past its mock
\* lookup: without a scope it calls the resolver, with one it keeps the
\* entry under the provider
scopedOfLifetimeCached(i, ctx, st) ==
    IF ctx.scope = NoScope THEN transientCached(i, ctx, st)
    ELSE LET r == IF st.scopes[ctx.scope][i] # Absent
                  THEN Ok(st, st.scopes[ctx.scope][i])
                  ELSE Resolve(ResolverOf(i), ctx, st)
         IN  IF r.status # "ok" THEN r
             ELSE [r EXCEPT !.st.scopes[ctx.scope][i] = r.ret]

scopedOfLifetime(i, ctx, st) ==
    IF ctx.scope = NoScope THEN Resolve(ResolverOf(i), ctx, st)
    ELSE LET r == IF st.scopes[ctx.scope][i] # Absent
                  THEN Ok(st, st.scopes[ctx.scope][i])
                  ELSE Resolve(ResolverOf(i), ctx, st)
         IN  IF r.status # "ok" THEN r
             ELSE [r EXCEPT !.st.scopes[ctx.scope][i] = r.ret]

\* the closure scoped() of src/unnamed/part_010 passes to mockable:
\* scope = context?.scope || globalScope, then has / get / set on it
scopedGlobal(i, ctx, st) ==
    IF ctx.scope = NoScope
    THEN LET r == IF st.cell[globalScope(i)].resolved
                  THEN Ok(st, st.cell[globalScope(i)].resolution)
                  ELSE Resolve(ResolverOf(i), ctx, st)
         IN  IF r.status # "ok" THEN r
             ELSE [r EXCEPT !.st.cell[globalScope(i)] =
                      [resolved |-> TRUE, resolution |-> r.ret]]
    ELSE LET r == IF st.scopes[ctx.scope][i] # Absent
                  THEN Ok(st, st.scopes[ctx.scope][i])
                  ELSE Resolve(ResolverOf(i), ctx, st)
         IN  IF r.status # "ok" THEN r
             ELSE [r EXCEPT !.st.scopes[ctx.scope][i] = r.ret]

\* a user resolver (context) => dependency(context)
forwardNoContext(i, ctx, st, d) ==
    mockable(Dependency(i), NoContext,
             [st EXCEPT !.trace = Append(@, [f |-> i, ctx |-> ctx])], d - 1)

forward(i, ctx, st, d) ==
    mockable(Dependency(i), ctx,
             [st EXCEPT !.trace = Append(@, [f |-> i, ctx |-> ctx])], d - 1)

\* a user resolver (context) => { first(context); return second(context) }
forwardBothScopeless(i, ctx, st, d) ==
    LET r == mockable(Dependencies(i)[1], ctx,
                      [st EXCEPT !.trace = Append(@, [f |-> i, ctx |-> ctx])],
                      d - 1)
    IN  IF r.status # "ok" THEN r
        ELSE mockable(Dependencies(i)[2], NoContext, r.st, d - 1)

forwardBoth(i, ctx, st, d) ==
    LET r == mockable(Dependencies(i)[1], ctx,
                      [st EXCEPT !.trace = Append(@, [f |-> i, ctx |-> ctx])],
                      d - 1)
    IN  IF r.status # "ok" THEN r
        ELSE mockable(Dependencies(i)[2], ctx, r.st, d - 1)

\* the function an instance wraps, by the factory that built the instance
wrapped(i, ctx, st, d) ==
    CASE i \in Forwarders -> forward(i, ctx, st, d)
      [] i \in Pairs -> forwardBoth(i, ctx, st, d)
      [] Kind(i) = "scopedByResolver" -> scopedByResolver(i, ctx, st, d)
      [] Kind(i) = "scopedOfLifetime" -> scopedOfLifetime(i, ctx, st)
      [] Kind(i) = "scopedGlobal" -> scopedGlobal(i, ctx, st)
      [] Kind(i) = "transient" -> transientResolver(i, ctx, st)
      [] Kind(i) = "singleton" -> singletonResolver(i, ctx, st)
      [] Kind(i) = "scoped" -> scopedResolver(i, ctx, st, d)

\* Object.assign(target, source) as a call: null and undefined as target
\* make it throw a TypeError; a number, string or boolean is boxed into a
\* new wrapper object, which gets the fields and is returned; a source
\* that is no object contributes no fields
assign(st, target, source) ==
    CASE target.t \in {"null", "undefined"} -> Throw(st)
      [] target.t = "prim" ->
            Ok([st EXCEPT !.heap =
                   Append(@, IF source.t = "obj" THEN @[source.id]
                             ELSE [k \in Keys |-> NoField])],
               Obj(Len(st.heap) + 1))
      [] source.t # "obj" -> Ok(st, target)
      [] OTHER -> Ok([st EXCEPT !.heap = ObjectAssign(@, target, source)],
                     target)

\* the merge of a Partial mock, both candidates at hand
mergeAlwaysSync(st, resolution, mockResolution) ==
    IF IsPromise(resolution) \/ IsPromise(mockResolution)
    THEN Ok(st, IF IsPromise(resolution) THEN mockResolution ELSE resolution)
    ELSE Ok([st EXCEPT !.heap = ObjectAssign(@, resolution, mockResolution)],
            resolution)

merge(st, resolution, mockResolution) ==
    IF IsPromise(resolution) \/ IsPromise(mockResolution)
    THEN Ok([st EXCEPT !.promises =
                Append(@, NewPromise("merge", UndefinedV, resolution,
                                     mockResolution))],
            Prom(Len(st.promises) + 1))
    ELSE assign(st, resolution, mockResolution)

\* mockable(resolver): the instance every provider is.  d bounds the call
\* depth (the JavaScript stack).
mockableIgnoresMock(i, ctx, st, d) ==
    IF d = 0 THEN Overflow(st) ELSE wrapped(i, ctx, st, d)

mockablePartialOverResolver(i, ctx, st, d) ==
    IF d = 0 THEN Overflow(st)
    ELSE
    LET m == ContextMock(ctx, i)
    IN  IF ~m.found THEN wrapped(i, ctx, st, d)
        ELSE IF ~m.isPartial THEN mockable(m.provider, ctx, st, d - 1)
        ELSE LET r1 == Resolve(ResolverOf(i), ctx, st)
             IN  IF r1.status # "ok" THEN r1
                 ELSE LET r2 == mockable(m.provider, ctx, r1.st, d - 1)
                      IN  IF r2.status # "ok" THEN r2
                          ELSE merge(r2.st, r1.ret, r2.ret)

mockableMockFirst(i, ctx, st, d) ==
    IF d = 0 THEN Overflow(st)
    ELSE
    LET m == ContextMock(ctx, i)
    IN  IF ~m.found THEN wrapped(i, ctx, st, d)
        ELSE IF ~m.isPartial THEN mockable(m.provider, ctx, st, d - 1)
        ELSE LET r2 == mockable(m.provider, ctx, st, d - 1)
             IN  IF r2.status # "ok" THEN r2
                 ELSE LET r1 == wrapped(i, ctx, r2.st, d)
                      IN  IF r1.status # "ok" THEN r1
                          ELSE merge(r1.st, r1.ret, r2.ret)

mockableWarmsCache(i, ctx, st, d) ==
    IF d = 0 THEN Overflow(st)
    ELSE
    LET m == ContextMock(ctx, i)
    IN  IF ~m.found THEN wrapped(i, ctx, st, d)
        ELSE LET r1 == wrapped(i, ctx, st, d)
             IN  IF r1.status # "ok" THEN r1
                 ELSE LET r2 == mockable(m.provider, ctx, r1.st, d - 1)
                      IN  IF r2.status # "ok" \/ ~m.isPartial THEN r2
                          ELSE merge(r2.st, r1.ret, r2.ret)

\* a replacement is called as a plain resolver, past its own interception
mockableOneLevel(i, ctx, st, d) ==
    IF d = 0 THEN Overflow(st)
    ELSE
    LET m == ContextMock(ctx, i)
    IN  IF ~m.found THEN wrapped(i, ctx, st, d)
        ELSE IF ~m.isPartial THEN wrapped(m.provider, ctx, st, d - 1)
        ELSE LET r1 == wrapped(i, ctx, st, d)
             IN  IF r1.status # "ok" THEN r1
                 ELSE LET r2 == mockable(m.provider, ctx, r1.st, d - 1)
                      IN  IF r2.status # "ok" THEN r2
                          ELSE merge(r2.st, r1.ret, r2.ret)

mockable(i, ctx, st, d) ==
    IF d = 0 THEN Overflow(st)
    ELSE
    LET m == ContextMock(ctx, i)
    IN  IF ~m.found THEN wrapped(i, ctx, st, d)
        ELSE IF ~m.isPartial THEN mockable(m.provider, ctx, st, d - 1)
        ELSE LET r1 == wrapped(i, ctx, st, d)
             IN  IF r1.status # "ok" THEN r1
                 ELSE LET r2 == mockable(m.provider, ctx, r1.st, d - 1)
                      IN  IF r2.status # "ok" THEN r2
                          ELSE merge(r2.st, r1.ret, r2.ret)

(***************************************************************************)
(* The provider protocol as a state machine.                               *)
(***************************************************************************)
Registry(kind, entries) == [kind |-> kind, entries |-> entries]
createMocks == Registry("Mocks", <<>>)
createImmutableMap == Registry("ImmutableMap", <<>>)
createMockMap == Registry("MockMap", <<>>)

\* the registries the callers of the protocol hold
Fixture ==
    << Registry("Mocks", mockPartially(mock(<<>>, "pT", "mF"), "pS", "mF")),
       Registry("Mocks", mockPartially(mock(<<>>, "pS", "mF"), "pC", "mF")),
       Registry("Mocks", mockPartially(mock(<<>>, "pC", "mF"), "pT", "mF")) >>

NoCall == [p |-> "-", ctx |-> NoContext, status |-> "-", ret |-> UndefinedV,
           trace |-> <<>>]
NoOp == [op |-> "-", r |-> 0, other |-> 0, key |-> "-", isPartial |-> FALSE,
         provider |-> "-", result |-> 0]
NoBulk == [op |-> "-", n |-> 0, keys |-> <<>>, ps |-> <<>>, ctx |-> NoContext,
           status |-> "-", ret |-> UndefinedV, resolutions |-> <<>>,
           trace |-> <<>>]

Init ==
    /\ \E bo \in Behaviours("pS"), bm \in Behaviours("mF") :
          behaviour = [f \in Resolvers |-> IF f = "mF" THEN bm ELSE bo]
    /\ heap = <<>>
    /\ promises = <<>>
    /\ cell = [i \in Singletons |->
                 [resolved |-> FALSE, resolution |-> UndefinedV]]
    /\ scopes = [s \in Scopes |-> [p \in ScopeKeys |-> Absent]]
    /\ invoked = [f \in Resolvers |-> 0]
    /\ last = NoCall
    /\ regs = Fixture
    /\ regop = NoOp
    /\ colls = <<>>
    /\ bulk = NoBulk

Invocations(inv) ==
    inv["pT"] + inv["pS"] + inv["pC"] + inv["mF"] + inv["rR"] + inv["rL"]
        + inv["rG"]

\* provider(context); the resolvers run at most MaxInvoked times in total
Call(p, ctx) ==
    /\ LET r == mockable(p, ctx, Current, MaxDepth)
       IN  /\ Invocations(r.st.invoked) <= MaxInvoked
           /\ heap' = r.st.heap
           /\ promises' = r.st.promises
           /\ cell' = r.st.cell
           /\ scopes' = r.st.scopes
           /\ invoked' = r.st.invoked
           /\ last' = [p |-> p, ctx |-> ctx, status |-> r.status,
                       ret |-> r.ret, trace |-> r.st.trace]
    /\ UNCHANGED <<behaviour, regs, regop, colls, bulk>>

\* the promise a user resolver returned is fulfilled with its object
Fulfil(n) ==
    /\ promises[n].kind = "resolver"
    /\ promises[n].state = "pending"
    /\ promises' = [promises EXCEPT ![n].state = "fulfilled"]
    /\ UNCHANGED <<behaviour, heap, cell, scopes, invoked, last, regs, regop,
                 colls, bulk>>

\* the promise a user resolver returned is rejected
Reject(n) ==
    /\ promises[n].kind = "resolver"
    /\ promises[n].state = "pending"
    /\ promises' = [promises EXCEPT ![n].state = "rejected"]
    /\ UNCHANGED <<behaviour, heap, cell, scopes, invoked, last, regs, regop,
                 colls, bulk>>

Rejected(v) == IsPromise(v) /\ promises[v.id].state = "rejected"
Fulfilled(v) == IsPromise(v) => promises[v.id].state = "fulfilled"
Awaited(v) == IF IsPromise(v) THEN promises[v.id].value ELSE v
Pending(v) == IsPromise(v) /\ promises[v.id].state = "pending"

\* Promise.all([resolution, mockResolution]) is fulfilled once both are
AllFulfilled(n) == Fulfilled(promises[n].a) /\ Fulfilled(promises[n].b)

\* .then(([a, b]) => Object.assign(a, b)): the promise is fulfilled with
\* what Object.assign returns and rejected when it throws
MergeThen(n) ==
    /\ promises[n].kind = "merge"
    /\ promises[n].state = "pending"
    /\ ~Rejected(promises[n].a) /\ ~Rejected(promises[n].b)
    /\ AllFulfilled(n)
    /\ \E r \in {assign(Current, Awaited(promises[n].a),
                         Awaited(promises[n].b))} :
          /\ heap' = r.st.heap
          /\ promises' = IF r.status = "ok"
                         THEN [promises EXCEPT ![n].state = "fulfilled",
                                               ![n].value = r.ret]
                         ELSE [promises EXCEPT ![n].state = "rejected"]
    /\ UNCHANGED <<behaviour, cell, scopes, invoked, last, regs, regop,
                 colls, bulk>>

\* Promise.all rejects as soon as one of its inputs has rejected
MergeReject(n) ==
    /\ promises[n].kind = "merge"
    /\ promises[n].state = "pending"
    /\ Rejected(promises[n].a) \/ Rejected(promises[n].b)
    /\ promises' = [promises EXCEPT ![n].state = "rejected"]
    /\ UNCHANGED <<behaviour, heap, cell, scopes, invoked, last, regs, regop,
                 colls, bulk>>

Next ==
    \/ \E p \in Providers, ctx \in Contexts : Call(p, ctx)
    \/ \E n \in DOMAIN promises : Fulfil(n)
    \/ \E n \in DOMAIN promises : Reject(n)
    \/ \E n \in DOMAIN promises : MergeThen(n)
    \/ \E n \in DOMAIN promises : MergeReject(n)

Spec == Init /\ [][Next]_vars

(***************************************************************************)
(* The registries as a state machine: regs holds every registry object     *)
(* created so far, and an operation on regs[r] creates one more.           *)
(***************************************************************************)
RegKeys == {"pT", "pS"}
RegValues == {"mF", "pC"}
RegKinds == {"Mocks", "ImmutableMap", "MockMap"}

\* what a lookup of key k in registry reg yields (get; map for a MockMap)
Lookup(reg, k) == find(reg.entries, k)

\* createMocks(newEntries) / createImmutableMap(newEntries) /
\* createMockMap(newEntries): a new registry object around a new array;
\* the array of the registry r it was derived from is not written
deriveInPlace(store, r, newEntries) ==
    Append([store EXCEPT ![r].entries = newEntries],
           Registry(store[r].kind, newEntries))

derive(store, r, newEntries) ==
    Append(store, Registry(store[r].kind, newEntries))

InitReg ==
    /\ behaviour = [f \in Resolvers |-> "sync"]
    /\ heap = <<>>
    /\ promises = <<>>
    /\ cell = [i \in Singletons |->
                 [resolved |-> FALSE, resolution |-> UndefinedV]]
    /\ scopes = [s \in Scopes |-> [p \in ScopeKeys |-> Absent]]
    /\ invoked = [f \in Resolvers |-> 0]
    /\ last = NoCall
    /\ \E kind \in RegKinds : regs = <<Registry(kind, <<>>)>>
    /\ regop = NoOp
    /\ colls = <<>>
    /\ bulk = NoBulk

RegOp(op, r, other, key, isPartial, provider, newEntries) ==
    /\ Len(regs) < MaxRegs
    /\ regs' = derive(regs, r, newEntries)
    /\ regop' = [op |-> op, r |-> r, other |-> other, key |-> key,
                 isPartial |-> isPartial, provider |-> provider,
                 result |-> Len(regs) + 1]
    /\ UNCHANGED <<behaviour, heap, promises, cell, scopes, invoked, last,
                 colls, bulk>>

\* mocks.mock(original, m)
Mock(r, k, m) ==
    /\ regs[r].kind = "Mocks"
    /\ RegOp("mock", r, 0, k, FALSE, m, mock(regs[r].entries, k, m))

\* mocks.mockPartially(original, m)
MockPartially(r, k, m) ==
    /\ regs[r].kind = "Mocks"
    /\ RegOp("mockPartially", r, 0, k, TRUE, m,
             mockPartially(regs[r].entries, k, m))

\* immutableMap.set(key, value)
MapSet(r, k, v) ==
    /\ regs[r].kind = "ImmutableMap"
    /\ RegOp("set", r, 0, k, FALSE, v, mapSet(regs[r].entries, k, v))

\* immutableMap.merge(other)
MapMerge(r, o) ==
    /\ regs[r].kind = "ImmutableMap"
    /\ RegOp("merge", r, o, "-", FALSE, "-",
             mapMerge(regs[r].entries, regs[o].entries))

\* mockMap.add(provider, replacement)
MockMapAdd(r, k, v) ==
    /\ regs[r].kind = "MockMap"
    /\ RegOp("add", r, 0, k, FALSE, v, add(regs[r].entries, k, v))

\* mockMap.apply(otherMockMap)
MockMapApply(r, o) ==
    /\ regs[r].kind = "MockMap"
    /\ RegOp("apply", r, o, "-", FALSE, "-",
             apply(regs[r].entries, regs[o].entries))

NextReg ==
    \/ \E r \in DOMAIN regs, k \in RegKeys, m \in RegValues : Mock(r, k, m)
    \/ \E r \in DOMAIN regs, k \in RegKeys, m \in RegValues :
          MockPartially(r, k, m)
    \/ \E r \in DOMAIN regs, k \in RegKeys, v \in RegValues : MapSet(r, k, v)
    \/ \E r \in DOMAIN regs, o \in DOMAIN regs : MapMerge(r, o)
    \/ \E r \in DOMAIN regs, k \in RegKeys, v \in RegValues :
          MockMapAdd(r, k, v)
    \/ \E r \in DOMAIN regs, o \in DOMAIN regs : MockMapApply(r, o)

SpecReg == InitReg /\ [][NextReg]_vars

(***************************************************************************)
(* Providers with dependencies and providers that share a resolver: the    *)
(* callers use pC, its twin pC2 and the forwarding providers pE and pE2.   *)
(***************************************************************************)
DepProviders == {"pC", "pC2", "pE", "pE2"}

\* 1: a Full mock for pC2 only (the twin of pC), 2: a Full mock for pC
FixtureDep ==
    << Registry("Mocks", mock(<<>>, "pC2", "mF")),
       Registry("Mocks", mock(<<>>, "pC", "mF")) >>

InitDep ==
    /\ \E bo \in Behaviours("pC"), bm \in Behaviours("mF") :
          behaviour = [f \in Resolvers |-> IF f = "mF" THEN bm ELSE bo]
    /\ heap = <<>>
    /\ promises = <<>>
    /\ cell = [i \in Singletons |->
                 [resolved |-> FALSE, resolution |-> UndefinedV]]
    /\ scopes = [s \in Scopes |-> [p \in ScopeKeys |-> Absent]]
    /\ invoked = [f \in Resolvers |-> 0]
    /\ last = NoCall
    /\ regs = FixtureDep
    /\ regop = NoOp
    /\ colls = <<>>
    /\ bulk = NoBulk

\* the contexts the callers pass: none, the scope s1 with each registry or
\* without, a registry without scope, and the scope s2 alone
DepContexts ==
    {NoContext, Context("s2", 0)} \cup
    ({Context(s, m) : s \in {"s1", NoScope}, m \in 0..Len(regs)}
        \ {Context(NoScope, 0)})

NextDep ==
    \/ \E p \in DepProviders, ctx \in DepContexts : Call(p, ctx)
    \/ \E n \in DOMAIN promises : Fulfil(n)
    \/ \E n \in DOMAIN promises : Reject(n)

SpecDep == InitDep /\ [][NextDep]_vars

(***************************************************************************)
(* Replacements that are replaced in turn.  The registries of the callers: *)
(*   1: pT -> pS and pS -> pC, a chain                                     *)
(*   2: pT -> pS and pS -> pT, a cycle of replacements                     *)
(*   3: pC -> pE, and the resolver of pE calls pC, the provider it replaces*)
(*   4: pT -> pE, and the resolver of pE calls pC, which has no mock       *)
(*   5: pT -> pE and pC -> pT, a cycle through the resolver of pE          *)
(***************************************************************************)
ChainProviders == {"pT", "pS", "pC", "pE"}

FixtureChain ==
    << Registry("Mocks", mock(mock(<<>>, "pT", "pS"), "pS", "pC")),
       Registry("Mocks", mock(mock(<<>>, "pT", "pS"), "pS", "pT")),
       Registry("Mocks", mock(<<>>, "pC", "pE")),
       Registry("Mocks", mock(<<>>, "pT", "pE")),
       Registry("Mocks", mock(mock(<<>>, "pT", "pE"), "pC", "pT")) >>

\* the resolvers return an object or throw
ChainBehaviours == {"sync", "throw"}

\* the callers pass one of the registries, with the scope s1 or without
ChainContexts ==
    {Context(s, m) : s \in {"s1", NoScope}, m \in 1..Len(regs)}

InitChain ==
    /\ \E bo \in ChainBehaviours : behaviour = [f \in Resolvers |-> bo]
    /\ heap = <<>>
    /\ promises = <<>>
    /\ cell = [i \in Singletons |->
                 [resolved |-> FALSE, resolution |-> UndefinedV]]
    /\ scopes = [s \in Scopes |-> [p \in ScopeKeys |-> Absent]]
    /\ invoked = [f \in Resolvers |-> 0]
    /\ last = NoCall
    /\ regs = FixtureChain
    /\ regop = NoOp
    /\ colls = <<>>
    /\ bulk = NoBulk

NextChain == \E p \in ChainProviders, ctx \in ChainContexts : Call(p, ctx)

SpecChain == InitChain /\ [][NextChain]_vars

(***************************************************************************)
(* One provider reached several times in one resolution: the callers call  *)
(* pC, the resolvers pJ and pK that call two providers, and resolveList    *)
(* over pC twice and over the two parents pE and pE2, each with a scope    *)
(* and no mocks.  (resolveList and its reactions are defined further down.) *)
(***************************************************************************)
PathProviders == {"pC", "pJ", "pK"}
PathInputs == {<<"pC", "pC">>, <<"pE", "pE2">>}
PathContexts == {Context("s1", 0), Context("s2", 0)}

InitPaths ==
    /\ \E bo \in Behaviours("pC") : behaviour = [f \in Resolvers |-> bo]
    /\ heap = <<>>
    /\ promises = <<>>
    /\ cell = [i \in Singletons |->
                 [resolved |-> FALSE, resolution |-> UndefinedV]]
    /\ scopes = [s \in Scopes |-> [p \in ScopeKeys |-> Absent]]
    /\ invoked = [f \in Resolvers |-> 0]
    /\ last = NoCall
    /\ regs = <<>>
    /\ regop = NoOp
    /\ colls = <<>>
    /\ bulk = NoBulk

(***************************************************************************)
(* Scoped providers of every build side by side: pC and pC2 as scoped() of  *)
(* src/src/provider.ts 247-263 builds them, pR as src/unnamed/part_003     *)
(* does, pL as createProvider of src/src/provider.ts 332-353 does.  The     *)
(* callers use no mocks.                                                    *)
(***************************************************************************)
KeyedProviders == {"pC", "pC2", "pR", "pL"}

InitKeyed ==
    /\ \E bo \in Behaviours("pC") : behaviour = [f \in Resolvers |-> bo]
    /\ heap = <<>>
    /\ promises = <<>>
    /\ cell = [i \in Singletons |->
                 [resolved |-> FALSE, resolution |-> UndefinedV]]
    /\ scopes = [s \in Scopes |-> [p \in ScopeKeys |-> Absent]]
    /\ invoked = [f \in Resolvers |-> 0]
    /\ last = NoCall
    /\ regs = <<>>
    /\ regop = NoOp
    /\ colls = <<>>
    /\ bulk = NoBulk

NextKeyed ==
    \/ \E p \in KeyedProviders, ctx \in Contexts : Call(p, ctx)
    \/ \E n \in DOMAIN promises : Fulfil(n)
    \/ \E n \in DOMAIN promises : Reject(n)

SpecKeyed == InitKeyed /\ [][NextKeyed]_vars

(***************************************************************************)
(* Scoped providers called with and without a scope: pC of provider.ts,    *)
(* which falls back to a singleton of its own, and pG of part_010, which   *)
(* falls back to the globalScope; no mocks.                                *)
(***************************************************************************)
FallbackProviders == {"pC", "pG"}

InitFallback ==
    /\ \E bo \in Behaviours("pC") : behaviour = [f \in Resolvers |-> bo]
    /\ heap = <<>>
    /\ promises = <<>>
    /\ cell = [i \in Singletons |->
                 [resolved |-> FALSE, resolution |-> UndefinedV]]
    /\ scopes = [s \in Scopes |-> [p \in ScopeKeys |-> Absent]]
    /\ invoked = [f \in Resolvers |-> 0]
    /\ last = NoCall
    /\ regs = <<>>
    /\ regop = NoOp
    /\ colls = <<>>
    /\ bulk = NoBulk

NextFallback ==
    \/ \E p \in FallbackProviders, ctx \in Contexts : Call(p, ctx)
    \/ \E n \in DOMAIN promises : Fulfil(n)
    \/ \E n \in DOMAIN promises : Reject(n)

SpecFallback == InitFallback /\ [][NextFallback]_vars

(***************************************************************************)
(* Partial mocks over resolvers that return no object: the resolvers of   *)
(* pT and pS return a number, string or boolean ("primitive") or null or   *)
(* undefined ("nullish"); the registry holds a Partial mock for each.      *)
(***************************************************************************)
ShapeProviders == {"pT", "pS"}

FixtureShape ==
    << Registry("Mocks", mockPartially(mockPartially(<<>>, "pT", "mF"),
                                       "pS", "mF")) >>

InitShape ==
    /\ \E bo \in {"primitive", "nullish"}, bm \in Behaviours("mF") :
          behaviour = [f \in Resolvers |-> IF f = "mF" THEN bm ELSE bo]
    /\ heap = <<>>
    /\ promises = <<>>
    /\ cell = [i \in Singletons |->
                 [resolved |-> FALSE, resolution |-> UndefinedV]]
    /\ scopes = [s \in Scopes |-> [p \in ScopeKeys |-> Absent]]
    /\ invoked = [f \in Resolvers |-> 0]
    /\ last = NoCall
    /\ regs = FixtureShape
    /\ regop = NoOp
    /\ colls = <<>>
    /\ bulk = NoBulk

NextShape ==
    \/ \E p \in ShapeProviders, ctx \in Contexts : Call(p, ctx)
    \/ \E n \in DOMAIN promises : Fulfil(n)
    \/ \E n \in DOMAIN promises : Reject(n)
    \/ \E n \in DOMAIN promises : MergeThen(n)
    \/ \E n \in DOMAIN promises : MergeReject(n)

SpecShape == InitShape /\ [][NextShape]_vars

(***************************************************************************)
(* Repeated calls under Partial mocks: one registry holds a Partial mock   *)
(* for the singleton pS and one for the scoped pC, and the callers call    *)
(* the two with that registry or with none, the resolvers running at most  *)
(* MaxPartial times in total.                                              *)
(***************************************************************************)
PartialProviders == {"pS", "pC"}

FixturePartial ==
    << Registry("Mocks", mockPartially(mockPartially(<<>>, "pS", "mF"),
                                       "pC", "mF")) >>

InitPartial ==
    /\ \E bo \in Behaviours("pS"), bm \in Behaviours("mF") :
          behaviour = [f \in Resolvers |-> IF f = "mF" THEN bm ELSE bo]
    /\ heap = <<>>
    /\ promises = <<>>
    /\ cell = [i \in Singletons |->
                 [resolved |-> FALSE, resolution |-> UndefinedV]]
    /\ scopes = [s \in Scopes |-> [p \in ScopeKeys |-> Absent]]
    /\ invoked = [f \in Resolvers |-> 0]
    /\ last = NoCall
    /\ regs = FixturePartial
    /\ regop = NoOp
    /\ colls = <<>>
    /\ bulk = NoBulk

PartialContexts ==
    {NoContext} \cup {Context(s, m) : s \in {NoScope, "s1"}, m \in {0, 1}}

\* provider(context); the resolvers run at most MaxPartial times in total
PartialCall(p, ctx) ==
    /\ \E r \in {mockable(p, ctx, Current, MaxDepth)} :
          /\ Invocations(r.st.invoked) <= MaxPartial
          /\ heap' = r.st.heap
          /\ promises' = r.st.promises
          /\ cell' = r.st.cell
          /\ scopes' = r.st.scopes
          /\ invoked' = r.st.invoked
          /\ last' = [p |-> p, ctx |-> ctx, status |-> r.status,
                      ret |-> r.ret, trace |-> r.st.trace]
    /\ UNCHANGED <<behaviour, regs, regop, colls, bulk>>

NextPartial ==
    \/ \E p \in PartialProviders, ctx \in PartialContexts : PartialCall(p, ctx)
    \/ \E n \in DOMAIN promises : Fulfil(n)
    \/ \E n \in DOMAIN promises : Reject(n)
    \/ \E n \in DOMAIN promises : MergeThen(n)
    \/ \E n \in DOMAIN promises : MergeReject(n)

SpecPartial == InitPartial /\ [][NextPartial]_vars

(***************************************************************************)
(* The build with provider.mock (src/unnamed/part_002 66-128): a provider *)
(* is called with (scope, mockMap), holds a mock map of its own, hands its *)
(* resolver a function `use`, and provider.mock(dependency, replacement)   *)
(* builds a new provider from the same lifetime and resolver.              *)
(*   vD = singleton(() => "original"), vR = singleton(() => "replacement") *)
(*   uT / uS / uC = transient / singleton / scoped((use) => use(vD))       *)
(*   uT.m / uS.m / uC.m = the provider that uT / uS / uC .mock(..) returns *)
(* regs[SlotOf(i)] is the mock map the closure of provider i holds; the    *)
(* slot of a provider that .mock has not built yet holds no entries.       *)
(***************************************************************************)
SwapDeps == {"vD", "vR"}
Users == {"uT", "uS", "uC"}
SwappedOf(u) ==
    CASE u = "uT" -> "uT.m"
      [] u = "uS" -> "uS.m"
      [] u = "uC" -> "uC.m"
Swapped == {SwappedOf(u) : u \in Users}
\* vC = provide("scoped", () => value), vO = provide("singleton", () => value)
\* around the once of src/unnamed/part_001
Valued == {"vC", "vO"}
SwapProviders ==
    <<"vD", "vR", "uT", "uS", "uC", "uT.m", "uS.m", "uC.m", "vC", "vO">>
SlotOf(i) == CHOOSE k \in DOMAIN SwapProviders : SwapProviders[k] = i
Lifetime(i) ==
    CASE i \in {"uT", "uT.m"} -> "transient"
      [] i \in {"vD", "vR", "uS", "uS.m", "vO"} -> "singleton"
      [] i \in {"uC", "uC.m", "vC"} -> "scoped"
SwapOnces == {"vD", "vR", "uS", "uS.m"}
SwapScopeKeys == {"uC", "uC.m"}

\* the mockMap argument of a provider call: undefined or a mock map
NoRequest == [defined |-> FALSE, entries |-> <<>>]
Request(entries) == [defined |-> TRUE, entries |-> entries]

\* `scope.get(getSelf()) || ...`: what JavaScript takes for true
Truthy(v) == v.t \in {"obj", "promise", "prim"}

RECURSIVE provideResolve(_, _, _, _)

\* use(provider) for the provider vD: currentMockMap.map(provider) is
\* called with the scope and the current mock map
use(i, scope, currentMockMap, st) ==
    provideResolve(map(currentMockMap, "vD"), scope, Request(currentMockMap),
                   [st EXCEPT !.trace =
                       Append(@, [f |-> i, ctx |-> Context(scope, 0)])])

\* resolver(use): vD and vR create a value, the others return use(vD)
userResolver(i, scope, currentMockMap, st) ==
    IF i \in SwapDeps \cup Valued THEN Resolve(i, Context(scope, 0), st)
    ELSE use(i, scope, currentMockMap, st)

\* once(resolver)(use): the first call that returns is remembered
onceResolver(i, scope, currentMockMap, st) ==
    IF st.cell[i].resolved THEN Ok(st, st.cell[i].resolution)
    ELSE LET r == userResolver(i, scope, currentMockMap, st)
         IN  IF r.status # "ok" THEN r
             ELSE [r EXCEPT !.st.cell[i] =
                      [resolved |-> TRUE, resolution |-> r.ret]]

\* `cachedResult ?? ...`: null and undefined count as no result
Nullish(v) == v.t \in {"null", "undefined"}

\* once(resolver)(use) with the once of src/unnamed/part_001:
\* cachedResult ?? (cachedResult = fn(...args))
onceCached(i, scope, currentMockMap, st) ==
    IF ~Nullish(st.cell[i].resolution) THEN Ok(st, st.cell[i].resolution)
    ELSE LET r == userResolver(i, scope, currentMockMap, st)
         IN  IF r.status # "ok" THEN r
             ELSE [r EXCEPT !.st.cell[i].resolution = r.ret]

\* resolve(scope, requestMockMap) of the provider i, with the mock maps rs
provideResolve(i, scope, requestMockMap, st) ==
    LET mockMap == regs[SlotOf(i)].entries
        currentMockMap == IF requestMockMap.defined
                          THEN apply(mockMap, requestMockMap.entries)
                          ELSE mockMap
        run == CASE Lifetime(i) = "singleton" /\ i \in Valued ->
                        onceCached(i, scope, currentMockMap, st)
                 [] Lifetime(i) = "singleton" /\ i \notin Valued ->
                        onceResolver(i, scope, currentMockMap, st)
                 [] OTHER -> userResolver(i, scope, currentMockMap, st)
    IN  IF Lifetime(i) # "scoped" \/ scope = NoScope THEN run
        ELSE LET r == IF Truthy(st.scopes[scope][i])
                      THEN Ok(st, st.scopes[scope][i])
                      ELSE run
             IN  IF r.status # "ok" THEN r
                 ELSE [r EXCEPT !.st.scopes[scope][i] = r.ret]

\* provider.mock(dependencyProvider, replacement) of the provider u:
\* provide(lifetime, originalResolver, mockMap.add(...)), a new provider
\* around a new mock map
provideMockInPlace(rs, u, dependencyProvider, replacement) ==
    [rs EXCEPT ![SlotOf(SwappedOf(u))] =
                   Registry("MockMap", add(rs[SlotOf(u)].entries,
                                           dependencyProvider, replacement)),
               ![SlotOf(u)] =
                   Registry("MockMap", add(rs[SlotOf(u)].entries,
                                           dependencyProvider, replacement))]

provideMock(rs, u, dependencyProvider, replacement) ==
    [rs EXCEPT ![SlotOf(SwappedOf(u))] =
                   Registry("MockMap", add(rs[SlotOf(u)].entries,
                                           dependencyProvider, replacement))]

Built(i) == i \in Swapped => regs[SlotOf(i)].entries # <<>>

InitSwap ==
    /\ \E bd \in Behaviours("vD"), br \in Behaviours("vR") :
          behaviour = [f \in SwapDeps |-> IF f = "vD" THEN bd ELSE br]
    /\ heap = <<>>
    /\ promises = <<>>
    /\ cell = [i \in SwapOnces |->
                 [resolved |-> FALSE, resolution |-> UndefinedV]]
    /\ scopes = [s \in Scopes |-> [p \in SwapScopeKeys |-> Absent]]
    /\ invoked = [f \in SwapDeps |-> 0]
    /\ last = NoCall
    /\ regs = [k \in DOMAIN SwapProviders |-> createMockMap]
    /\ regop = NoOp
    /\ colls = <<>>
    /\ bulk = NoBulk

\* the mock maps a caller passes: none, or the one uS.m holds (it has no
\* entries until uS.mock built uS.m)
SwapRequests == {0, SlotOf("uS.m")}

\* provider(scope, mockMap), with regs[rm] as mockMap unless rm = 0
SwapCall(i, scope, rm) ==
    /\ Built(i)
    /\ \E r \in {provideResolve(i, scope,
                                IF rm = 0 THEN NoRequest
                                ELSE Request(regs[rm].entries), Current)} :
          /\ r.st.invoked["vD"] + r.st.invoked["vR"] <= MaxInvoked
          /\ heap' = r.st.heap
          /\ promises' = r.st.promises
          /\ cell' = r.st.cell
          /\ scopes' = r.st.scopes
          /\ invoked' = r.st.invoked
          /\ last' = [p |-> i, ctx |-> Context(scope, rm), status |-> r.status,
                      ret |-> r.ret, trace |-> r.st.trace]
    /\ UNCHANGED <<behaviour, regs, regop, colls, bulk>>

\* u.mock(dependencyProvider, replacement)
ProviderMock(u, dependencyProvider, replacement) ==
    /\ ~Built(SwappedOf(u))
    /\ regs' = provideMock(regs, u, dependencyProvider, replacement)
    /\ regop' = [op |-> "provider.mock", r |-> SlotOf(u), other |-> 0,
                 key |-> dependencyProvider, isPartial |-> FALSE,
                 provider |-> replacement, result |-> SlotOf(SwappedOf(u))]
    /\ UNCHANGED <<behaviour, heap, promises, cell, scopes, invoked, last,
                 colls, bulk>>

NextSwap ==
    \/ \E i \in Users \cup Swapped, scope \in {NoScope, "s1"},
          rm \in SwapRequests : SwapCall(i, scope, rm)
    \/ \E u \in Users : ProviderMock(u, "vD", "vR")
    \/ \E n \in DOMAIN promises : Fulfil(n)
    \/ \E n \in DOMAIN promises : Reject(n)

SpecSwap == InitSwap /\ [][NextSwap]_vars

(***************************************************************************)
(* Resolvers that return a value JavaScript takes for false: 0, "" or      *)
(* false ("falsy"), null or undefined ("nullish"), next to an object       *)
(* ("sync").  pS and pC are the singleton and the scoped provider of       *)
(* src/src/provider.ts, vO and vC those of provide in src/unnamed/part_002 *)
(* with the once of src/unnamed/part_001; no mocks.                        *)
(***************************************************************************)
ValueBehaviours == {"sync", "falsy", "nullish"}
FalsyProviders == {"pS", "pC"}
FalsyContexts == {NoContext, Context("s1", 0), Context("s2", 0)}

InitFalsy ==
    /\ \E bo \in ValueBehaviours :
          behaviour = [f \in Resolvers \cup Valued |-> bo]
    /\ heap = <<>>
    /\ promises = <<>>
    /\ cell = [i \in Singletons \cup Valued |->
                 [resolved |-> FALSE, resolution |-> UndefinedV]]
    /\ scopes = [s \in Scopes |-> [p \in ScopeKeys \cup Valued |-> Absent]]
    /\ invoked = [f \in Resolvers \cup Valued |-> 0]
    /\ last = NoCall
    /\ regs = [k \in DOMAIN SwapProviders |-> createMockMap]
    /\ regop = NoOp
    /\ colls = <<>>
    /\ bulk = NoBulk

\* provider(scope) of the build of part_002; the resolvers of vC and vO
\* run at most MaxInvoked times in total
ValuedCall(i, scope) ==
    /\ \E r \in {provideResolve(i, scope, NoRequest, Current)} :
          /\ r.st.invoked["vC"] + r.st.invoked["vO"] <= MaxInvoked
          /\ heap' = r.st.heap
          /\ promises' = r.st.promises
          /\ cell' = r.st.cell
          /\ scopes' = r.st.scopes
          /\ invoked' = r.st.invoked
          /\ last' = [p |-> i, ctx |-> Context(scope, 0), status |-> r.status,
                      ret |-> r.ret, trace |-> r.st.trace]
    /\ UNCHANGED <<behaviour, regs, regop, colls, bulk>>

NextFalsy ==
    \/ \E p \in FalsyProviders, ctx \in FalsyContexts : Call(p, ctx)
    \/ \E i \in Valued, scope \in Scopes \cup {NoScope} : ValuedCall(i, scope)

SpecFalsy == InitFalsy /\ [][NextFalsy]_vars

(***************************************************************************)
(* once(fn) on its own.  oF is fn wrapped by the once of                   *)
(* src/src/helpers.ts (the same as in src/src/provider.ts 318-330), oC is  *)
(* fn wrapped by the once of src/unnamed/part_001; a program holds one of  *)
(* them.  fn takes two numbers and returns their sum ("add"), 0            *)
(* ("falsy"), null or undefined ("nullish"), or throws.                    *)
(***************************************************************************)
Onces == {"oF", "oC"}
OnceBehaviours == {"add", "falsy", "nullish", "throw"}
OnceArgs == {<<a, b>> : a, b \in 1..3}

\* what fn returns for args
FnResult(o, args) ==
    CASE behaviour[o] = "add" -> [t |-> "prim", id |-> args[1] + args[2]]
      [] behaviour[o] = "falsy" -> FalsyV
      [] behaviour[o] = "nullish" -> NullV

\* fn(...args)
fn(o, args, st) ==
    LET st1 == [st EXCEPT !.invoked[o] = @ + 1,
                          !.trace = Append(@, [f |-> o, args |-> args])]
    IN  IF behaviour[o] = "throw" THEN Throw(st1)
        ELSE Ok(st1, FnResult(o, args))

\* the function once(fn) returns, called with args
once(o, args, st) ==
    IF o = "oF"
    THEN \* if (returned) return result; result = fn(...args); returned = true
         IF st.cell[o].resolved THEN Ok(st, st.cell[o].resolution)
         ELSE LET r == fn(o, args, st)
              IN  IF r.status # "ok" THEN r
                  ELSE [r EXCEPT !.st.cell[o] =
                           [resolved |-> TRUE, resolution |-> r.ret]]
    ELSE \* cachedResult ?? (cachedResult = fn(...args))
         IF ~Nullish(st.cell[o].resolution) THEN Ok(st, st.cell[o].resolution)
         ELSE LET r == fn(o, args, st)
              IN  IF r.status # "ok" THEN r
                  ELSE [r EXCEPT !.st.cell[o].resolution = r.ret]

InitOnce ==
    /\ \E o \in Onces, b \in OnceBehaviours :
          /\ behaviour = [f \in {o} |-> b]
          /\ cell = [i \in {o} |->
                       [resolved |-> FALSE, resolution |-> UndefinedV]]
          /\ invoked = [f \in {o} |-> 0]
    /\ heap = <<>>
    /\ promises = <<>>
    /\ scopes = [s \in Scopes |-> [p \in {} |-> Absent]]
    /\ last = NoCall
    /\ regs = <<>>
    /\ regop = NoOp
    /\ colls = <<>>
    /\ bulk = NoBulk

\* wrapped(...args); fn runs at most MaxInvoked times
OnceCall(o, args) ==
    /\ o \in DOMAIN cell
    /\ \E r \in {once(o, args, Current)} :
          /\ r.st.invoked[o] <= MaxInvoked
          /\ cell' = r.st.cell
          /\ invoked' = r.st.invoked
          /\ last' = [p |-> o, ctx |-> args, status |-> r.status,
                      ret |-> r.ret, trace |-> r.st.trace]
    /\ UNCHANGED <<behaviour, heap, promises, scopes, regs, regop, colls,
                   bulk>>

NextOnce == \E o \in Onces, args \in OnceArgs : OnceCall(o, args)

SpecOnce == InitOnce /\ [][NextOnce]_vars

(***************************************************************************)
(* Bulk resolution (src/src/collection-resolution.ts).  A collection is an *)
(* array (keys = <<>>) or a keyed object; colls holds every one created.   *)
(***************************************************************************)
Coll(i) == [t |-> "coll", id |-> i]
Collection(keys, items) == [keys |-> keys, items |-> items]

\* the array of the resolutions (keys = <<>>), or Object.fromEntries of the
\* [key, resolution] pairs: keys[n] holds items[n]
collectKeysReversed(keys, items) ==
    Collection([n \in DOMAIN keys |-> keys[Len(keys) + 1 - n]], items)

collect(keys, items) == Collection(keys, items)

\* providers.map((provider) => provider(context)): the providers are called
\* in order on the state the previous call left; a throw ends the map
RECURSIVE mapCalls(_, _, _)
mapCallsOwnContext(ps, ctx, st) ==
    IF ps = <<>> THEN [st |-> st, status |-> "ok", rets |-> <<>>]
    ELSE LET r == mockable(Head(ps), ctx, st, MaxDepth)
         IN  IF r.status # "ok"
             THEN [st |-> r.st, status |-> r.status, rets |-> <<>>]
             ELSE LET rs == mapCalls(Tail(ps), NoContext, r.st)
                  IN  IF rs.status # "ok" THEN rs
                      ELSE [rs EXCEPT !.rets = <<r.ret>> \o @]

mapCalls(ps, ctx, st) ==
    IF ps = <<>> THEN [st |-> st, status |-> "ok", rets |-> <<>>]
    ELSE LET r == mockable(Head(ps), ctx, st, MaxDepth)
         IN  IF r.status # "ok"
             THEN [st |-> r.st, status |-> r.status, rets |-> <<>>]
             ELSE LET rs == mapCalls(Tail(ps), ctx, r.st)
                  IN  IF rs.status # "ok" THEN rs
                      ELSE [rs EXCEPT !.rets = <<r.ret>> \o @]

\* resolutions.some((resolution) => resolution instanceof Promise)
hasPromises(resolutions) ==
    \E n \in DOMAIN resolutions : IsPromise(resolutions[n])

\* the keys of the record given to resolveMap, in Object.entries order
BulkKeys == <<"x", "y", "z">>
\* the provider collections the callers resolve in bulk
BulkInputs == {<<>>, <<"pS">>, <<"pT", "mF">>, <<"pS", "mF">>}
BulkContexts == {NoContext, Context("s1", 0)}

\* the common shape of resolveList (keys = <<>>) and resolveMap: the
\* collection when no resolution is a promise, otherwise one promise over
\* the collection of the resolutions
alwaysSync(op, keys, ps, ctx) ==
    /\ bulk.n < MaxBulk
    /\ \E r \in {mapCalls(ps, ctx, Current)} :
        /\ Invocations(r.st.invoked) <= MaxInvoked
        /\ heap' = r.st.heap
        /\ cell' = r.st.cell
        /\ scopes' = r.st.scopes
        /\ invoked' = r.st.invoked
        /\ promises' = r.st.promises
        /\ colls' = IF r.status = "ok"
                    THEN Append(colls, collect(keys, r.rets)) ELSE colls
        /\ bulk' = [op |-> op, n |-> bulk.n + 1, keys |-> keys, ps |-> ps,
                    ctx |-> ctx,
                    status |-> r.status,
                    ret |-> IF r.status = "ok" THEN Coll(Len(colls) + 1)
                            ELSE UndefinedV,
                    resolutions |-> r.rets, trace |-> r.st.trace]
        /\ UNCHANGED <<behaviour, last, regs, regop>>

resolve(op, keys, ps, ctx) ==
    /\ bulk.n < MaxBulk
    /\ \E r \in {mapCalls(ps, ctx, Current)} :
      \E pending \in {r.status = "ok" /\ hasPromises(r.rets)} :
        /\ Invocations(r.st.invoked) <= MaxInvoked
        /\ heap' = r.st.heap
        /\ cell' = r.st.cell
        /\ scopes' = r.st.scopes
        /\ invoked' = r.st.invoked
        /\ colls' = IF r.status = "ok"
                    THEN Append(colls, collect(keys, r.rets)) ELSE colls
        /\ promises' = IF pending
                       THEN Append(r.st.promises,
                                   NewPromise("all", UndefinedV,
                                              Coll(Len(colls) + 1),
                                              UndefinedV))
                       ELSE r.st.promises
        /\ bulk' = [op |-> op, n |-> bulk.n + 1, keys |-> keys, ps |-> ps,
                    ctx |-> ctx,
                    status |-> r.status,
                    ret |-> IF pending THEN Prom(Len(r.st.promises) + 1)
                            ELSE IF r.status = "ok"
                                 THEN Coll(Len(colls) + 1)
                                 ELSE UndefinedV,
                    resolutions |-> r.rets, trace |-> r.st.trace]
        /\ UNCHANGED <<behaviour, last, regs, regop>>

\* resolveList(providers, context)
ResolveList(ps, ctx) ==
    /\ resolve("resolveList", <<>>, ps, ctx)

\* resolveMap(providers, context), providers = {x: ps[1], y: ps[2], ...}
ResolveMap(ps, ctx) ==
    /\ resolve("resolveMap", SubSeq(BulkKeys, 1, Len(ps)), ps, ctx)

\* what Promise.all delivers for the items: the value of every promise,
\* every other item as it is, at the same positions
awaitAllBySettleOrder(items) ==
    LET late == {n \in DOMAIN items : IsPromise(items[n])}
    IN  [n \in DOMAIN items |->
            IF n \in late /\ Len(items) + 1 - n \in late
            THEN Awaited(items[Len(items) + 1 - n])
            ELSE Awaited(items[n])]

awaitAll(items) == [n \in DOMAIN items |-> Awaited(items[n])]

\* the promise of a bulk call is fulfilled: every promise among the
\* resolutions is fulfilled, and a new collection holds the awaited values
\* under the same keys
AllThenSettled(n) ==
    /\ promises[n].kind = "all"
    /\ promises[n].state = "pending"
    /\ LET c == colls[promises[n].a.id]
       IN  /\ \A k \in DOMAIN c.items : ~Pending(c.items[k])
           /\ colls' = Append(colls, collect(c.keys, awaitAll(c.items)))
           /\ promises' = [promises EXCEPT ![n].state = "fulfilled",
                                           ![n].value = Coll(Len(colls) + 1)]
    /\ UNCHANGED <<behaviour, heap, cell, scopes, invoked, last, regs, regop,
                   bulk>>

AllThenFirst(n) ==
    /\ promises[n].kind = "all"
    /\ promises[n].state = "pending"
    /\ LET c == colls[promises[n].a.id]
       IN  /\ \E k \in DOMAIN c.items :
                 IsPromise(c.items[k]) /\ Fulfilled(c.items[k])
           /\ colls' = Append(colls, collect(c.keys, awaitAll(c.items)))
           /\ promises' = [promises EXCEPT ![n].state = "fulfilled",
                                           ![n].value = Coll(Len(colls) + 1)]
    /\ UNCHANGED <<behaviour, heap, cell, scopes, invoked, last, regs, regop,
                   bulk>>

AllThen(n) ==
    /\ promises[n].kind = "all"
    /\ promises[n].state = "pending"
    /\ LET c == colls[promises[n].a.id]
       IN  /\ \A k \in DOMAIN c.items : Fulfilled(c.items[k])
           /\ colls' = Append(colls, collect(c.keys, awaitAll(c.items)))
           /\ promises' = [promises EXCEPT ![n].state = "fulfilled",
                                           ![n].value = Coll(Len(colls) + 1)]
    /\ UNCHANGED <<behaviour, heap, cell, scopes, invoked, last, regs, regop,
                   bulk>>

\* the promise of a bulk call rejects as soon as one resolution has rejected
AllReject(n) ==
    /\ promises[n].kind = "all"
    /\ promises[n].state = "pending"
    /\ \E k \in DOMAIN colls[promises[n].a.id].items :
          Rejected(colls[promises[n].a.id].items[k])
    /\ promises' = [promises EXCEPT ![n].state = "rejected"]
    /\ UNCHANGED <<behaviour, heap, cell, scopes, invoked, last, regs, regop,
                   colls, bulk>>

InitBulk ==
    /\ \E bo \in Behaviours("pS"), bm \in Behaviours("mF") :
          behaviour = [f \in Resolvers |-> IF f = "mF" THEN bm ELSE bo]
    /\ heap = <<>>
    /\ promises = <<>>
    /\ cell = [i \in Singletons |->
                 [resolved |-> FALSE, resolution |-> UndefinedV]]
    /\ scopes = [s \in Scopes |-> [p \in ScopeKeys |-> Absent]]
    /\ invoked = [f \in Resolvers |-> 0]
    /\ last = NoCall
    /\ regs = <<>>
    /\ regop = NoOp
    /\ colls = <<>>
    /\ bulk = NoBulk

NextBulk ==
    \/ \E ps \in BulkInputs, ctx \in BulkContexts : ResolveList(ps, ctx)
    \/ \E ps \in BulkInputs, ctx \in BulkContexts : ResolveMap(ps, ctx)
    \/ \E n \in DOMAIN promises : Fulfil(n)
    \/ \E n \in DOMAIN promises : Reject(n)
    \/ \E n \in DOMAIN promises : AllThen(n)
    \/ \E n \in DOMAIN promises : AllReject(n)

SpecBulk == InitBulk /\ [][NextBulk]_vars

NextPaths ==
    \/ \E p \in PathProviders, ctx \in PathContexts : Call(p, ctx)
    \/ \E ps \in PathInputs, ctx \in PathContexts : ResolveList(ps, ctx)
    \/ \E n \in DOMAIN promises : Fulfil(n)
    \/ \E n \in DOMAIN promises : Reject(n)
    \/ \E n \in DOMAIN promises : AllThen(n)
    \/ \E n \in DOMAIN promises : AllReject(n)

SpecPaths == InitPaths /\ [][NextPaths]_vars

\* The reaction of Promise.all is a job of the microtask queue, which the
\* engine runs as soon as the promise can be settled: a join that can be
\* fulfilled, or can be rejected, is not left waiting forever.
SpecBulkFair ==
    /\ SpecBulk
    /\ WF_vars(\E n \in DOMAIN promises : AllThen(n))
    /\ WF_vars(\E n \in DOMAIN promises : AllReject(n))

(***************************************************************************)
(* Properties of the provider protocol (checked under Spec).               *)
(***************************************************************************)
Unmocked(c, p) == ~ContextMock(c.ctx, p).found
Returns(f) == behaviour[f] # "throw"
ScopesHolding(p) == {s \in Scopes : scopes[s][p] # Absent}

\* C1 - Singleton: whatever the contexts of the calls (scopes, mocks of
\* other providers, none), the resolver of the singleton pS runs exactly
\* once, in the first call that reaches it, the value it returned is
\* remembered and never replaced, and every call with no mock for pS
\* returns that remembered value.
C1_Call ==
    (last.p = "pS" /\ Unmocked(last, "pS") /\ Returns("pS")) =>
        /\ last.status = "ok"
        /\ cell["pS"].resolved
        /\ last.ret = cell["pS"].resolution
        /\ invoked["pS"] = 1
        /\ last.trace \in {<<>>, <<[f |-> "pS", ctx |-> last.ctx]>>}
C1_Once ==
    Returns("pS") =>
        /\ invoked["pS"] = (IF cell["pS"].resolved THEN 1 ELSE 0)
        /\ cell["pS"].resolved => cell["pS"].resolution # UndefinedV
C1_Kept ==
    cell["pS"].resolved =>
        /\ cell'["pS"] = cell["pS"]
        /\ invoked'["pS"] = invoked["pS"]
C1_Singleton == [](C1_Call /\ C1_Once) /\ [][C1_Kept]_vars

\* C1 witness: pS was resolved in an earlier call and is now called with a
\* scope and a registry that mocks other providers; it returns the
\* remembered pending value without running its resolver.
C1_Witness ==
    /\ last.p = "pS"
    /\ last.ctx = Context("s1", 3)
    /\ last.trace = <<>>
    /\ last.ret = cell["pS"].resolution
    /\ IsPromise(last.ret)
    /\ invoked["pS"] = 1

\* C2 - Scoped cache per scope: the resolver of the scoped provider pC runs
\* once per distinct scope: a call with scope s and no mock for pC returns
\* the value stored for s, the entries of two scopes are different values,
\* and an entry, once stored, is never changed (so a call with another
\* scope does not touch it).
C2_Call ==
    (/\ last.p = "pC" /\ last.ctx.scope # NoScope
     /\ Unmocked(last, "pC") /\ Returns("pC")) =>
        /\ last.status = "ok"
        /\ scopes[last.ctx.scope]["pC"] = last.ret
        /\ last.ret # Absent
        /\ last.trace \in {<<>>, <<[f |-> "pC", ctx |-> last.ctx]>>}
C2_Once ==
    Returns("pC") =>
        /\ invoked["pC"] = Cardinality(ScopesHolding("pC"))
                            + (IF cell["pC.fb"].resolved THEN 1 ELSE 0)
        /\ \A s1 \in Scopes, s2 \in Scopes :
             (s1 # s2 /\ {s1, s2} \subseteq ScopesHolding("pC")) =>
                 scopes[s1]["pC"] # scopes[s2]["pC"]
C2_Kept ==
    \A s \in ScopesHolding("pC") :
        /\ scopes'[s]["pC"] = scopes[s]["pC"]
        /\ (last'.ctx.scope = s => invoked'["pC"] = invoked["pC"])
C2_ScopedPerScope == [](C2_Call /\ C2_Once) /\ [][C2_Kept]_vars

\* C2 witness: pC has an entry in both scopes and is called again with the
\* first scope: no resolver runs and the value stored for s1 is returned.
C2_Witness ==
    /\ last.p = "pC"
    /\ last.ctx = Context("s1", 0)
    /\ last.trace = <<>>
    /\ ScopesHolding("pC") = Scopes
    /\ last.ret = scopes["s1"]["pC"]
    /\ invoked["pC"] = 2

\* C3 - Scoped without a scope falls back to a singleton: a call of pC with
\* no context, or with a context without a scope, and no mock for pC returns
\* the value remembered by the fallback, which is resolved by the first such
\* call and never replaced; as long as pC was never resolved in a scope its
\* resolver has run at most once.
C3_Call ==
    (/\ last.p = "pC" /\ last.ctx.scope = NoScope
     /\ Unmocked(last, "pC") /\ Returns("pC")) =>
        /\ last.status = "ok"
        /\ cell["pC.fb"].resolved
        /\ last.ret = cell["pC.fb"].resolution
        /\ last.trace \in {<<>>, <<[f |-> "pC", ctx |-> last.ctx]>>}
C3_Once ==
    (Returns("pC") /\ ScopesHolding("pC") = {}) =>
        invoked["pC"] = (IF cell["pC.fb"].resolved THEN 1 ELSE 0)
C3_Kept ==
    cell["pC.fb"].resolved =>
        /\ cell'["pC.fb"] = cell["pC.fb"]
        /\ (last'.ctx.scope = NoScope => invoked'["pC"] = invoked["pC"])
Called(p, ctx) == last'.p = p /\ last'.ctx = ctx /\ Call(p, ctx)

\* the fields of the object v denotes in heap h
FieldsOf(h, v) == h[v.id]

\* r is the shallow overlay of m onto o: the keys of both, m's value for
\* every key of m and o's value for every key only o has
IsOverlay(r, o, m) ==
    /\ KeysOf(r) = KeysOf(o) \cup KeysOf(m)
    /\ \A k \in KeysOf(m) : r[k] = m[k]
    /\ \A k \in KeysOf(o) \ KeysOf(m) : r[k] = o[k]

\* the singleton closures that belong to provider p
OwnCells(p) == {i \in Singletons : ResolverOf(i) = p}

\* C4 - Full mock bypass: when the registry of the context has a Full mock
\* m for p, the call p(ctx) does exactly what the call m(ctx) does from the
\* same state: same result, same effects; it runs no resolver of p and
\* leaves p's singleton cells and scope entries as they were, whatever
\* they hold.
C4_Step ==
    \A p \in Providers, ctx \in Contexts :
        LET m == ContextMock(ctx, p)
            viaMock == mockable(m.provider, ctx, Current, MaxDepth - 1)
        IN  (Called(p, ctx) /\ m.found /\ ~m.isPartial) =>
                /\ last'.status = viaMock.status
                /\ last'.ret = viaMock.ret
                /\ last'.trace = viaMock.st.trace
                /\ heap' = viaMock.st.heap
                /\ promises' = viaMock.st.promises
                /\ invoked'[p] = invoked[p]
                /\ \A n \in DOMAIN last'.trace : last'.trace[n].f # p
                /\ \A i \in OwnCells(p) : cell'[i] = cell[i]
                /\ \A sc \in Scopes : scopes'[sc][p] = scopes[sc][p]
C4_FullMockBypass == [][C4_Step]_vars

\* C4 witness: the singleton pS is already resolved and the scope in the
\* context is in use; the call with a Full mock returns the new object of
\* the replacement mF, and only mF's resolver ran, with the same context.
C4_Witness ==
    /\ last.p = "pS"
    /\ last.ctx = Context("s1", 2)
    /\ cell["pS"].resolved
    /\ last.trace = <<[f |-> "mF", ctx |-> last.ctx]>>
    /\ last.ret.t = "obj"
    /\ last.ret # cell["pS"].resolution
    /\ FieldsOf(heap, last.ret) = NewFields("mF")

\* C5 - Partial mock merge, synchronous: when the original path of p yields
\* the object O and the Partial mock's provider yields the object M, the
\* call returns an object that is the overlay of M onto O.
C5_Step ==
    \A p \in Providers, ctx \in Contexts :
        LET m == ContextMock(ctx, p)
            original == wrapped(p, ctx, Current, MaxDepth)
            mocked == mockable(m.provider, ctx, original.st, MaxDepth - 1)
        IN  (/\ Called(p, ctx) /\ m.found /\ m.isPartial
             /\ original.status = "ok" /\ original.ret.t = "obj"
             /\ mocked.status = "ok" /\ mocked.ret.t = "obj") =>
                /\ last'.status = "ok"
                /\ last'.ret.t = "obj"
                /\ IsOverlay(FieldsOf(heap', last'.ret),
                             FieldsOf(mocked.st.heap, original.ret),
                             FieldsOf(mocked.st.heap, mocked.ret))
C5_PartialMerge == [][C5_Step]_vars

\* C5 witness: the transient pT resolves to {a, b}, its Partial mock mF to
\* {b, c}; the call returned {a: pT's, b: mF's, c: mF's}.
C5_Witness ==
    /\ last.p = "pT"
    /\ last.ctx.mocks = 3
    /\ last.status = "ok"
    /\ last.ret.t = "obj"
    /\ last.trace = <<[f |-> "pT", ctx |-> last.ctx],
                      [f |-> "mF", ctx |-> last.ctx]>>
    /\ FieldsOf(heap, last.ret) = [a |-> "pT", b |-> "mF", c |-> "mF"]

\* C6 - Partial mock with pending values: when the original candidate or
\* the mock candidate is a promise the call returns a new pending promise,
\* otherwise it returns the merged object at once; that promise is
\* fulfilled only when both candidates are fulfilled, and then with the
\* overlay of the mock's value onto the original's value.
C6_Call ==
    \A p \in Providers, ctx \in Contexts :
        LET m == ContextMock(ctx, p)
            original == wrapped(p, ctx, Current, MaxDepth)
            mocked == mockable(m.provider, ctx, original.st, MaxDepth - 1)
        IN  (/\ Called(p, ctx) /\ m.found /\ m.isPartial
             /\ original.status = "ok" /\ mocked.status = "ok") =>
                IF IsPromise(original.ret) \/ IsPromise(mocked.ret)
                THEN /\ last'.status = "ok"
                     /\ last'.ret = Prom(Len(promises'))
                     /\ last'.ret.id \notin DOMAIN mocked.st.promises
                     /\ promises'[last'.ret.id] =
                            NewPromise("merge", UndefinedV, original.ret,
                                       mocked.ret)
                ELSE last'.ret.t = "obj"
C6_Settle ==
    \A n \in DOMAIN promises :
        (/\ promises[n].kind = "merge"
         /\ promises[n].state = "pending"
         /\ promises'[n].state = "fulfilled") =>
            /\ Fulfilled(promises[n].a)
            /\ Fulfilled(promises[n].b)
            /\ promises'[n].value = Awaited(promises[n].a)
            /\ IsOverlay(FieldsOf(heap', promises'[n].value),
                         FieldsOf(heap, Awaited(promises[n].a)),
                         FieldsOf(heap, Awaited(promises[n].b)))
C6_Joined ==
    \A n \in DOMAIN promises :
        (promises[n].kind = "merge" /\ promises[n].state = "fulfilled") =>
            /\ ~Pending(promises[n].a) /\ ~Rejected(promises[n].a)
            /\ ~Pending(promises[n].b) /\ ~Rejected(promises[n].b)
C6_PartialPending == []C6_Joined /\ [][C6_Call /\ C6_Settle]_vars

\* C6 witness: pT and its Partial mock mF both returned promises; the
\* promise the call returned has been fulfilled, after both of them, with
\* the merged object.
C6_Witness ==
    /\ last.p = "pT"
    /\ IsPromise(last.ret)
    /\ promises[last.ret.id].kind = "merge"
    /\ promises[last.ret.id].state = "fulfilled"
    /\ IsPromise(promises[last.ret.id].a)
    /\ IsPromise(promises[last.ret.id].b)
    /\ FieldsOf(heap, promises[last.ret.id].value) =
           [a |-> "pT", b |-> "mF", c |-> "mF"]

\* C7 - Transient: every call of the transient pT with no mock for pT runs
\* pT's resolver exactly once, with the context of the call, and returns
\* what that run returned, a value that did not exist before; no singleton
\* cell and no scope is written.
C7_Step ==
    \A ctx \in Contexts :
        LET run == Resolve("pT", ctx, Current)
        IN  (Called("pT", ctx) /\ ~ContextMock(ctx, "pT").found) =>
                /\ invoked'["pT"] = invoked["pT"] + 1
                /\ last'.trace = <<[f |-> "pT", ctx |-> ctx]>>
                /\ last'.status = run.status
                /\ last'.ret = run.ret
                /\ last'.status = "ok" =>
                     /\ last'.ret.t = "obj" => last'.ret.id \notin DOMAIN heap
                     /\ IsPromise(last'.ret) =>
                            last'.ret.id \notin DOMAIN promises
                /\ cell' = cell
                /\ scopes' = scopes
C7_Transient == [][C7_Step]_vars

\* C7 witness: the second call of pT: the resolver has run twice and the
\* call returned the second object.
C7_Witness ==
    /\ last.p = "pT"
    /\ last.ctx = Context("s2", 2)
    /\ invoked["pT"] = 2
    /\ last.ret = Obj(2)
    /\ Len(heap) = 2

(***************************************************************************)
(* Properties of the registries (checked under SpecReg).                   *)
(***************************************************************************)
Descriptor(isPartial, provider) ==
    [found |-> TRUE, isPartial |-> isPartial, provider |-> provider]
WriteOps == {"mock", "mockPartially", "set", "add"}
MergeOps == {"merge", "apply"}

\* C8 - Registry immutability: an operation leaves every registry that
\* exists, the receiver and the argument among them, with the entries and
\* the lookups it had, and its result is a registry that did not exist
\* before.
C8_Step ==
    /\ \A r \in DOMAIN regs :
          /\ r \in DOMAIN regs'
          /\ regs'[r].entries = regs[r].entries
          /\ \A k \in Providers : Lookup(regs'[r], k) = Lookup(regs[r], k)
    /\ regop' # regop =>
          /\ regop'.result \notin DOMAIN regs
          /\ regop'.result \in DOMAIN regs'
          /\ regop'.result # regop'.r
          /\ regop'.result # regop'.other
C8_RegistryImmutable == [][C8_Step]_vars

\* C8 witness: a merge/apply of two registries that disagree on a key: the
\* result holds the argument's entry while the receiver still holds its
\* own.
C8_Witness ==
    /\ regop.op \in MergeOps
    /\ \E k \in RegKeys :
          /\ Lookup(regs[regop.r], k).found
          /\ Lookup(regs[regop.other], k).found
          /\ Lookup(regs[regop.r], k) # Lookup(regs[regop.other], k)
          /\ Lookup(regs[regop.result], k) # Lookup(regs[regop.r], k)

\* C9 - Last write wins: the registry a registration returns yields, for
\* the registered provider, the new descriptor (replacement and
\* Full/Partial tag), also when the source registry had an entry for it,
\* and for every other provider what the source registry yields.
C9_LastWriteWins ==
    regop.op \in WriteOps =>
        /\ Lookup(regs[regop.result], regop.key) =
               Descriptor(regop.isPartial, regop.provider)
        /\ \A k \in Providers \ {regop.key} :
               Lookup(regs[regop.result], k) = Lookup(regs[regop.r], k)

\* C9 witness: the source registry has a Full entry for the key and another
\* entry; the key is registered again as Partial with another replacement.
C9_Witness ==
    /\ regop.op = "mockPartially"
    /\ Lookup(regs[regop.r], regop.key).found
    /\ ~Lookup(regs[regop.r], regop.key).isPartial
    /\ Lookup(regs[regop.r], regop.key).provider # regop.provider
    /\ Len(regs[regop.r].entries) = 2
    /\ Lookup(regs[regop.result], regop.key) = Descriptor(TRUE, regop.provider)

\* C10 - Registry merge precedence: the lookup of k in R1.merge(R2) (apply
\* for a MockMap) is R2's lookup of k when R2 has an entry for k and R1's
\* lookup of k otherwise; with an empty registry on either side the result
\* has the lookups of the other one.
C10_MergePrecedence ==
    regop.op \in MergeOps =>
        LET R1 == regs[regop.r]
            R2 == regs[regop.other]
            R == regs[regop.result]
        IN  /\ \A k \in Providers :
                  Lookup(R, k) = IF Lookup(R2, k).found THEN Lookup(R2, k)
                                 ELSE Lookup(R1, k)
            /\ R2.entries = <<>> =>
                  \A k \in Providers : Lookup(R, k) = Lookup(R1, k)
            /\ R1.entries = <<>> =>
                  \A k \in Providers : Lookup(R, k) = Lookup(R2, k)

\* C10 witness: R1 has two entries, R2 has a different entry for one of
\* R1's keys; the merged registry has R2's entry for that key and R1's
\* entry for the other.
C10_Witness ==
    /\ regop.op \in MergeOps
    /\ \E k1 \in RegKeys, k2 \in RegKeys :
          /\ k1 # k2
          /\ Lookup(regs[regop.r], k1).found
          /\ Lookup(regs[regop.r], k2).found
          /\ Lookup(regs[regop.other], k1).found
          /\ ~Lookup(regs[regop.other], k2).found
          /\ Lookup(regs[regop.other], k1) # Lookup(regs[regop.r], k1)
          /\ Lookup(regs[regop.result], k1) = Lookup(regs[regop.other], k1)
          /\ Lookup(regs[regop.result], k2) = Lookup(regs[regop.r], k2)

(***************************************************************************)
(* Properties of providers with dependencies and twins (under SpecDep).    *)
(***************************************************************************)
\* the providers the resolver of p reaches by forwarding its context
RECURSIVE Reach(_)
Reach(p) == IF p \in Forwarders THEN {p} \cup Reach(Dependency(p)) ELSE {p}

\* the registry of the context holds an entry whose key is the provider q
HasEntry(ctx, q) ==
    ctx.mocks # 0 /\ q \in EntryKeys(regs[ctx.mocks].entries)

\* the resolver functions a call ran, in order
Ran(trace) == [n \in DOMAIN trace |-> trace[n].f]

\* the step is the call p(ctx) and it did what r says
SameOutcome(r) ==
    /\ last'.status = r.status
    /\ last'.ret = r.ret
    /\ Ran(last'.trace) = Ran(r.st.trace)
    /\ heap' = r.st.heap
    /\ promises' = r.st.promises
    /\ cell' = r.st.cell
    /\ scopes' = r.st.scopes
    /\ invoked' = r.st.invoked

\* C11 as claimed - whenever the registry of the context has no entry for
\* p, the call p(ctx) does exactly what p does with the same scope and no
\* mocks.
C11_Original ==
    [][\A p \in DepProviders, ctx \in Contexts :
          (Called(p, ctx) /\ ~HasEntry(ctx, p)) =>
              SameOutcome(mockable(p, [ctx EXCEPT !.mocks = 0], Current,
                                   MaxDepth))]_vars

\* C11 - Missing mock and identity lookup: a lookup matches an entry only
\* by the identity of the provider.  When the registry of the context has
\* no entry for p nor for any provider p's resolver reaches by forwarding
\* the context (an entry for the twin built from the same resolver does
\* not count), the call p(ctx) does exactly what p does with the same
\* scope and no mocks: same outcome (an error only if the resolver itself
\* throws), same resolvers run, same effects.
C11_Step ==
    \A p \in DepProviders, ctx \in Contexts :
        (/\ Called(p, ctx)
         /\ \A q \in Reach(p) : ~HasEntry(ctx, q)) =>
            /\ SameOutcome(mockable(p, [ctx EXCEPT !.mocks = 0], Current,
                                    MaxDepth))
            /\ \A n \in DOMAIN last'.trace :
                  last'.trace[n].f \in {ResolverOf(q) : q \in Reach(p)}
C11_MissingMock == [][C11_Step]_vars

\* C11 witness: pC was called with a scope and the registry that holds a
\* Full mock for its twin pC2 only; pC's own resolver ran and its object is
\* what the call returned and what the scope now holds for pC.
C11_Witness ==
    /\ last.p = "pC"
    /\ last.ctx = Context("s1", 1)
    /\ HasEntry(last.ctx, "pC2")
    /\ last.status = "ok"
    /\ last.trace = <<[f |-> "pC", ctx |-> last.ctx]>>
    /\ last.ret.t = "obj"
    /\ FieldsOf(heap, last.ret) = NewFields("pC")
    /\ scopes["s1"]["pC"] = last.ret

\* the forwarding resolvers a call of e runs before the dependency pC
Chain(e) == IF e = "pE2" THEN <<"pE2", "pE">> ELSE <<"pE">>

\* what pC has remembered for the context: its scope entry, or the cell of
\* its fallback when the context has no scope
Remembered(c, sc, ctx) ==
    IF ctx.scope = NoScope THEN c["pC.fb"].resolution
    ELSE sc[ctx.scope]["pC"]

\* v is, or is a promise of, the object created next by the resolver f
IsNewFrom(v, f) ==
    /\ v.t = "obj" => v.id = Len(heap) + 1
    /\ v.t = "promise" =>
          /\ v.id = Len(promises) + 1
          /\ promises'[v.id].value.id = Len(heap) + 1
    /\ Len(heap') = Len(heap) + 1
    /\ heap'[Len(heap) + 1] = NewFields(f)

\* C12 - Mocks reach dependencies through the propagated context: pE and
\* pE2 forward the context they received down to the dependency pC.  With
\* no mock for pC in the context the call runs the forwarding resolvers and
\* then resolves pC by pC's own lifetime path (its resolver, or what pC has
\* remembered), and mF does not run.  With a Full mock for pC in the
\* context, at depth one (pE) and at depth two (pE2), the call runs the
\* forwarding resolvers and then mF, with the same context, returns mF's new
\* value, and pC's resolver does not run and pC's caches stay as they were.
C12_Step ==
    \A e \in Forwarders, ctx \in Contexts :
        Called(e, ctx) =>
            LET n == Len(Chain(e))
                rest == SubSeq(last'.trace, n + 1, Len(last'.trace))
            IN  /\ Len(last'.trace) >= n
                /\ \A k \in 1..n :
                      last'.trace[k] = [f |-> Chain(e)[k], ctx |-> ctx]
                /\ ~HasEntry(ctx, "pC") =>
                      /\ invoked'["mF"] = invoked["mF"]
                      /\ rest \in {<<>>, <<[f |-> "pC", ctx |-> ctx]>>}
                      /\ rest = <<>> <=>
                            Remembered(cell, scopes, ctx) # 
                                IF ctx.scope = NoScope THEN UndefinedV
                                ELSE Absent
                      /\ last'.status = "ok" =>
                            /\ last'.ret = Remembered(cell', scopes', ctx)
                            /\ rest # <<>> => IsNewFrom(last'.ret, "pC")
                /\ HasEntry(ctx, "pC") =>
                      /\ rest = <<[f |-> "mF", ctx |-> ctx]>>
                      /\ invoked'["pC"] = invoked["pC"]
                      /\ cell' = cell /\ scopes' = scopes
                      /\ last'.status = "ok" => IsNewFrom(last'.ret, "mF")
C12_MocksReachDependencies == [][C12_Step]_vars

\* C12 witness: pE2 was called with the registry that holds a Full mock for
\* pC, two forwarding resolvers deep: the resolvers that ran are pE2, pE and
\* mF, and the value returned is mF's object.
C12_Witness ==
    /\ last.p = "pE2"
    /\ last.ctx = Context("s1", 2)
    /\ Ran(last.trace) = <<"pE2", "pE", "mF">>
    /\ last.ret.t = "obj"
    /\ FieldsOf(heap, last.ret) = NewFields("mF")
    /\ invoked["pC"] = 1
    /\ scopes["s1"]["pC"] # Absent
    /\ scopes["s1"]["pC"] # last.ret

(***************************************************************************)
(* Further properties of the provider protocol (checked under Spec).       *)
(***************************************************************************)
\* C13 - Context pass-through: every resolver a call runs, be it the
\* resolver of the called provider (transient, singleton on its first call,
\* scoped on a cache miss or through its fallback) or the resolver of a
\* mock's replacement, receives the context the provider was called with:
\* the same object, and undefined when the call had no context.
C13_ContextPassThrough ==
    \A n \in DOMAIN last.trace : last.trace[n].ctx = last.ctx

\* C13 witness: the scoped pC was called with the registry that holds a
\* Partial mock for it and no scope; its fallback ran pC's resolver and the
\* replacement mF ran too, both with the context of the call.
C13_Witness ==
    /\ last.p = "pC"
    /\ last.ctx = Context(NoScope, 2)
    /\ last.ctx # NoContext
    /\ last.trace = <<[f |-> "pC", ctx |-> last.ctx],
                      [f |-> "mF", ctx |-> last.ctx]>>

(***************************************************************************)
(* Properties of bulk resolution (checked under SpecBulk).                 *)
(***************************************************************************)
\* the collection the last bulk call has delivered so far: the one it
\* returned, or the one its promise was fulfilled with
Delivered ==
    /\ bulk.status = "ok"
    /\ IsPromise(bulk.ret) => promises[bulk.ret.id].state = "fulfilled"
Out == colls[Awaited(bulk.ret).id]

\* v is an object created by the resolver of provider p
ProducedBy(v, p) == v.t = "obj" /\ heap[v.id] = NewFields(ResolverOf(p))

\* the value under key k of the keyed collection c
At(c, k) == c.items[CHOOSE n \in DOMAIN c.keys : c.keys[n] = k]

\* C14 - Bulk list order: the list resolveList(ps, ctx) returns, or the
\* list its promise is fulfilled with, has the length of ps, and its i-th
\* element is the object the i-th provider of ps resolved to, in whatever
\* order the pending resolutions were fulfilled.
C14_ListOrder ==
    (bulk.op = "resolveList" /\ Delivered) =>
        /\ Awaited(bulk.ret).t = "coll"
        /\ Len(Out.items) = Len(bulk.ps)
        /\ \A i \in DOMAIN bulk.ps : ProducedBy(Out.items[i], bulk.ps[i])

\* C14 witness: resolveList([pT, mF]) with both resolvers asynchronous; both
\* promises are fulfilled and the list was delivered through the promise of
\* the bulk call.
C14_Witness ==
    /\ bulk.op = "resolveList"
    /\ bulk.ps = <<"pT", "mF">>
    /\ Delivered
    /\ IsPromise(bulk.ret)
    /\ \A i \in 1..2 : IsPromise(bulk.resolutions[i])
    /\ ProducedBy(Out.items[1], "pT")
    /\ ProducedBy(Out.items[2], "mF")

\* the resolver behind the n-th provider of the last bulk call returns its
\* object synchronously
SyncEntry(n) == behaviour[ResolverOf(bulk.ps[n])] = "sync"

\* C15 - Bulk sync/async normalization: resolveList and resolveMap return
\* the collection itself when every provider resolved synchronously (the
\* empty collection included) and one pending value when at least one
\* resolution is pending; that value is fulfilled with a collection that
\* holds, at each position, the value the pending resolution was fulfilled
\* with, or the very value a synchronous resolution returned.
C15_Normalization ==
    bulk.status = "ok" =>
        /\ (\A n \in DOMAIN bulk.ps : SyncEntry(n)) =>
              /\ bulk.ret.t = "coll"
              /\ Out.items = bulk.resolutions
              /\ \A n \in DOMAIN bulk.ps : bulk.resolutions[n].t = "obj"
        /\ (\E n \in DOMAIN bulk.ps : ~SyncEntry(n)) =>
              /\ IsPromise(bulk.ret)
              /\ Delivered =>
                    /\ Awaited(bulk.ret).t = "coll"
                    /\ Len(Out.items) = Len(bulk.ps)
                    /\ \A n \in DOMAIN bulk.ps :
                          /\ Out.items[n].t = "obj"
                          /\ SyncEntry(n) =>
                                Out.items[n] = bulk.resolutions[n]
                          /\ ~SyncEntry(n) =>
                                /\ IsPromise(bulk.resolutions[n])
                                /\ Out.items[n] =
                                      promises[bulk.resolutions[n].id].value

\* C15 witness: resolveMap({x: pT, y: mF}) with pT synchronous and mF
\* asynchronous returned a promise, which was fulfilled with the collection
\* that holds pT's object as returned and mF's awaited object.
C15_Witness ==
    /\ bulk.op = "resolveMap"
    /\ bulk.ps = <<"pT", "mF">>
    /\ Delivered
    /\ IsPromise(bulk.ret)
    /\ SyncEntry(1) /\ ~SyncEntry(2)
    /\ Out.items[1] = bulk.resolutions[1]
    /\ ProducedBy(Out.items[2], "mF")

\* C15 witness of the synchronous case is the empty collection:
\* resolveList([]) returned an empty list at once.
C15_WitnessEmpty ==
    /\ bulk.op = "resolveList"
    /\ bulk.ps = <<>>
    /\ bulk.ret.t = "coll"
    /\ Out.items = <<>>

\* the promises among the resolutions of the last bulk call
Entries == {bulk.resolutions[n] : n \in DOMAIN bulk.resolutions}

\* C16 - Bulk failure is all-or-nothing.  If a resolver of the collection
\* throws, the bulk call throws: it returns nothing and creates neither a
\* collection nor a promise of one.  If a pending resolution is rejected,
\* the promise of the bulk call is never fulfilled, its rejection is the
\* step that is enabled, and once rejected it stays rejected and carries
\* no collection.
C16_State ==
    /\ (\E n \in DOMAIN bulk.ps :
            behaviour[ResolverOf(bulk.ps[n])] = "throw") =>
          /\ bulk.status = "throw"
          /\ bulk.ret = UndefinedV
    /\ (bulk.status = "ok" /\ \E v \in Entries : Rejected(v)) =>
          /\ IsPromise(bulk.ret)
          /\ promises[bulk.ret.id].state # "fulfilled"
          /\ promises[bulk.ret.id].value = UndefinedV
          /\ promises[bulk.ret.id].state = "pending" =>
                ENABLED AllReject(bulk.ret.id)
C16_Step ==
    /\ bulk'.n # bulk.n /\ bulk'.status = "throw" =>
          /\ colls' = colls
          /\ \A n \in DOMAIN promises' \ DOMAIN promises :
                promises'[n].kind # "all"
    /\ \A n \in DOMAIN promises :
          (promises[n].kind = "all" /\ promises[n].state = "rejected") =>
              promises'[n] = promises[n]
    /\ \A n \in DOMAIN promises :
          (promises[n].kind = "all" /\ promises[n].state = "pending"
              /\ promises'[n].state = "rejected") => colls' = colls
C16_AllOrNothing == []C16_State /\ [][C16_Step]_vars

\* C16 witness: resolveList([pT, mF]) with both resolvers asynchronous; one
\* resolution was fulfilled, the other rejected, and the promise of the
\* bulk call is rejected.
C16_Witness ==
    /\ bulk.ps = <<"pT", "mF">>
    /\ bulk.status = "ok"
    /\ IsPromise(bulk.ret)
    /\ promises[bulk.ret.id].state = "rejected"
    /\ promises[bulk.resolutions[1].id].state = "fulfilled"
    /\ Rejected(bulk.resolutions[2])

\* C17 - resolveMap shape: the map resolveMap(providersByKey, ctx) returns,
\* or the map its promise is fulfilled with, has exactly the keys of the
\* input, each once, and under every key the object that the provider given
\* under that key resolved to; every resolver ran with ctx.
C17_MapShape ==
    bulk.op = "resolveMap" =>
        /\ \A n \in DOMAIN bulk.trace : bulk.trace[n].ctx = bulk.ctx
        /\ Delivered =>
              /\ Awaited(bulk.ret).t = "coll"
              /\ Len(Out.keys) = Len(bulk.keys)
              /\ {Out.keys[n] : n \in DOMAIN Out.keys} =
                    {bulk.keys[n] : n \in DOMAIN bulk.keys}
              /\ \A n \in DOMAIN bulk.keys :
                    ProducedBy(At(Out, bulk.keys[n]), bulk.ps[n])

\* C17 witness: resolveMap({x: pS, y: mF}, {scope: s1}) with synchronous
\* resolvers returned the map at once: x holds the singleton's object, y the
\* object of mF.
C17_Witness ==
    /\ bulk.op = "resolveMap"
    /\ bulk.keys = <<"x", "y">>
    /\ bulk.ps = <<"pS", "mF">>
    /\ bulk.ctx = Context("s1", 0)
    /\ bulk.status = "ok"
    /\ bulk.ret.t = "coll"
    /\ At(Out, "x") = cell["pS"].resolution
    /\ ProducedBy(At(Out, "y"), "mF")

(***************************************************************************)
(* Properties of the scope (checked under SpecKeyed and SpecDep).          *)
(***************************************************************************)
\* how often the resolver has run on behalf of the scoped provider p, if
\* every entry and every fallback cell of p stands for one run
RunsFor(p) ==
    Cardinality(ScopesHolding(p)) +
        (IF cell[singletonFallback(p)].resolved THEN 1 ELSE 0)

\* C18 - Scope key is the provider identity: after p({scope: s}) for a
\* scoped provider p the scope s holds the returned value under the key p,
\* and the two scoped providers pC and pC2 built from one resolver function
\* have separate entries, the resolver having run once for each entry (and
\* once for each fallback).
C18_ScopeKey ==
    /\ \A p \in KeyedProviders :
          (last.p = p /\ last.ctx.scope # NoScope /\ last.status = "ok") =>
              scopes[last.ctx.scope][p] = last.ret
    /\ Returns("pC") => invoked["pC"] = RunsFor("pC") + RunsFor("pC2")

\* the keys under which scope s holds an entry (scopes[s] is a Map: one
\* entry per key by construction)
EntriesOf(sc, s) == {k \in ScopeKeys : sc[s][k] # Absent}

\* the scoped providers whose own lifetime path the call q(ctx) reaches
ScopedReached(q, ctx) ==
    {p \in Reach(q) : Kind(p) = "scoped" /\ ~HasEntry(ctx, p)}

\* C19 - Scope entries are lazy, unique and permanent.  A scope holds
\* entries under scoped providers only, one per provider.  An entry for p
\* appears in s only in a call made with the scope s that reaches p's own
\* lifetime path with p's resolver running in that call, and the entry is
\* the value that call returned.  No step removes an entry or changes its
\* value.  Every successful scoped resolution of p with s leaves an entry
\* for p, so the size of s grows by exactly the scoped providers newly
\* resolved in it and equals their number.
C19_State ==
    \A s \in Scopes : \A k \in EntriesOf(scopes, s) : Kind(k) = "scoped"
C19_Step ==
    /\ \A s \in Scopes : \A k \in EntriesOf(scopes, s) :
          scopes'[s][k] = scopes[s][k]
    /\ \A s \in Scopes : \A k \in EntriesOf(scopes', s) \ EntriesOf(scopes, s) :
          /\ last' # last
          /\ last'.ctx.scope = s
          /\ k \in ScopedReached(last'.p, last'.ctx)
          /\ \E n \in DOMAIN last'.trace :
                last'.trace[n] = [f |-> ResolverOf(k), ctx |-> last'.ctx]
          /\ scopes'[s][k] = last'.ret
    /\ \A q \in DepProviders, ctx \in Contexts :
          (Called(q, ctx) /\ ctx.scope # NoScope /\ last'.status = "ok") =>
              /\ ScopedReached(q, ctx) \subseteq EntriesOf(scopes', ctx.scope)
              /\ EntriesOf(scopes', ctx.scope) =
                    EntriesOf(scopes, ctx.scope) \cup ScopedReached(q, ctx)
              /\ Cardinality(EntriesOf(scopes', ctx.scope)) =
                    Cardinality(EntriesOf(scopes, ctx.scope)) +
                    Cardinality(ScopedReached(q, ctx)
                                    \ EntriesOf(scopes, ctx.scope))
              /\ \A s \in Scopes \ {ctx.scope} : scopes'[s] = scopes[s]
C19_ScopeEntries == []C19_State /\ [][C19_Step]_vars

\* C19 witness: pC and its twin pC2 were both resolved in s1, the last time
\* through a call that found the entry; s1 holds two entries, one for each,
\* with different values, and s2 holds none.
C19_Witness ==
    /\ EntriesOf(scopes, "s1") = {"pC", "pC2"}
    /\ scopes["s1"]["pC"] # scopes["s1"]["pC2"]
    /\ EntriesOf(scopes, "s2") = {}
    /\ invoked["pC"] = 2
    /\ last.ctx.scope = "s1"
    /\ last.trace = <<>>
    /\ last.status = "ok"

(***************************************************************************)
(* Caches under Full mocks (checked under Spec).                           *)
(***************************************************************************)
\* nothing is remembered for p: its singleton cells are unresolved and no
\* scope holds an entry for it
CachesEmpty(p) ==
    /\ \A i \in OwnCells(p) : ~cell[i].resolved
    /\ \A s \in Scopes : scopes[s][p] = Absent

\* C20 - A fully mocked call leaves the provider's own caches untouched: a
\* call of p intercepted by a Full mock changes neither p's singleton cells
\* nor p's scope entries and does not run p's resolver, so as long as p's
\* resolver has not run nothing is remembered for p; the first call of p
\* with no mock for it then runs p's resolver, for the first time, with the
\* context of the call, and returns the new value of p's own resolver.
C20_State ==
    \A p \in Providers : invoked[p] = 0 => CachesEmpty(p)
C20_Step ==
    \A p \in Providers, ctx \in Contexts :
        Called(p, ctx) =>
            /\ (HasEntry(ctx, p) /\ ~ContextMock(ctx, p).isPartial) =>
                  /\ invoked'[p] = invoked[p]
                  /\ \A i \in OwnCells(p) : cell'[i] = cell[i]
                  /\ \A s \in Scopes : scopes'[s][p] = scopes[s][p]
            /\ (~HasEntry(ctx, p) /\ invoked[p] = 0) =>
                  /\ invoked'[p] = 1
                  /\ last'.trace = <<[f |-> p, ctx |-> ctx]>>
                  /\ last'.status = "ok" => IsNewFrom(last'.ret, p)
C20_FullMockLeavesCaches == []C20_State /\ [][C20_Step]_vars

\* C20 witness: the replacement mF has run, in a call intercepted by a Full
\* mock, and made the first object; the last call is the singleton pS
\* without a mock, which ran pS's resolver for the first time and returned
\* its new object.
C20_Witness ==
    /\ invoked["mF"] = 1
    /\ Len(heap) = 2
    /\ heap[1] = NewFields("mF")
    /\ last.p = "pS"
    /\ ~HasEntry(last.ctx, "pS")
    /\ invoked["pS"] = 1
    /\ last.trace = <<[f |-> "pS", ctx |-> last.ctx]>>
    /\ last.ret = Obj(2)
    /\ heap[2] = NewFields("pS")
    /\ cell["pS"].resolution = last.ret

(***************************************************************************)
(* Failing resolvers (checked under Spec).                                 *)
(***************************************************************************)
\* the call p(ctx) is answered by a Full mock
FullyMocked(ctx, p) == HasEntry(ctx, p) /\ ~ContextMock(ctx, p).isPartial

\* C21 - A resolver that throws is not cached: when the resolver of the
\* singleton pS or of the scoped pC throws, every call that reaches the
\* provider's own path (no Full mock) runs the resolver again, ends with the
\* error, and leaves every singleton cell and every scope as it was; nothing
\* is ever remembered for the provider.
C21_State ==
    \A p \in {"pS", "pC"} : behaviour[p] = "throw" => CachesEmpty(p)
C21_Step ==
    \A p \in {"pS", "pC"}, ctx \in Contexts :
        (Called(p, ctx) /\ ~FullyMocked(ctx, p) /\ behaviour[p] = "throw") =>
            /\ last'.status = "throw"
            /\ last'.trace = <<[f |-> p, ctx |-> ctx]>>
            /\ invoked'[p] = invoked[p] + 1
            /\ cell' = cell
            /\ scopes' = scopes
C21_ThrowNotCached == []C21_State /\ [][C21_Step]_vars

\* C21 witness: the resolver of the singleton pS throws; pS was called
\* twice, the resolver ran both times, the second call ended with the error
\* and the cell is still unresolved.
C21_Witness ==
    /\ behaviour["pS"] = "throw"
    /\ last.p = "pS"
    /\ last.status = "throw"
    /\ invoked["pS"] = 2
    /\ ~cell["pS"].resolved

\* what provider p has remembered for a call with ctx: the singleton cell,
\* the scope entry, or the cell of the scoped provider's fallback
RememberedBy(p, ctx) ==
    IF Kind(p) = "singleton" THEN cell[p].resolution
    ELSE IF ctx.scope = NoScope THEN cell[singletonFallback(p)].resolution
    ELSE scopes[ctx.scope][p]

\* C22 - A rejected pending resolution is not cached as a value: when what
\* the singleton pS or the scoped pC (for the scope of the call) remembers
\* is a promise that has rejected, a call with no mock for the provider
\* runs the resolver again and does not return the remembered promise.
C22_Step ==
    \A p \in {"pS", "pC"}, ctx \in Contexts :
        (Called(p, ctx) /\ ~HasEntry(ctx, p)
            /\ Rejected(RememberedBy(p, ctx))) =>
            /\ invoked'[p] = invoked[p] + 1
            /\ last'.ret # RememberedBy(p, ctx)
C22_RejectedNotCached == [][C22_Step]_vars

(***************************************************************************)
(* The lifetime-parameterised build (checked under SpecKeyed).             *)
(***************************************************************************)
\* C23 - In the lifetime-parameterised build, the scoped provider pL called
\* without a scope resolves anew on every call: each such call runs the
\* resolver once more, with the context of the call, returns the value
\* that run created, and leaves every scope and every singleton cell as it
\* was, so nothing is remembered from one call to the next.
C23_Step ==
    \A ctx \in Contexts :
        (Called("pL", ctx) /\ ctx.scope = NoScope) =>
            /\ invoked'["rL"] = invoked["rL"] + 1
            /\ last'.trace = <<[f |-> "rL", ctx |-> ctx]>>
            /\ last'.status = "ok" => IsNewFrom(last'.ret, "rL")
            /\ scopes' = scopes
            /\ cell' = cell
C23_ScopedWithoutScope == [][C23_Step]_vars

\* C23 witness: pL was called twice without a scope and nothing else was
\* called; the resolver ran twice and the second call returned the second
\* object.
C23_Witness ==
    /\ last.p = "pL"
    /\ last.ctx = NoContext
    /\ invoked["rL"] = 2
    /\ Len(heap) = 2
    /\ last.ret = Obj(2)
    /\ heap[2] = NewFields("rL")

(***************************************************************************)
(* Partial mocks over values that are no objects (under SpecShape).        *)
(***************************************************************************)
\* C24 - Partial-mock shape mismatch fails fast: when the call p(ctx) is
\* answered through a Partial mock and p's own resolution is a number,
\* string, boolean, null or undefined, the call ends in an error: it throws,
\* or the promise it returned is never fulfilled; no merged value is ever
\* returned.
C24_ShapeMismatch ==
    \A p \in ShapeProviders :
        (last.p = p /\ HasEntry(last.ctx, p)
            /\ behaviour[p] \in {"primitive", "nullish"}) =>
            /\ last.status = "throw" \/ IsPromise(last.ret)
            /\ IsPromise(last.ret) =>
                  promises[last.ret.id].state # "fulfilled"

(***************************************************************************)
(* provider.mock (under SpecSwap).                                         *)
(***************************************************************************)
\* v, or what the promise v is fulfilled with, is an object the resolver of
\* f created, in heap h and promises ps
MadeBy(h, ps, v, f) ==
    LET o == IF IsPromise(v) THEN ps[v.id].value ELSE v
    IN  o.t = "obj" /\ h[o.id] = NewFields(f)

\* the step is the call i(scope) with no mock map in which the resolver of
\* i ran and returned
RanUnmocked(i) ==
    /\ last' # last
    /\ last'.p = i
    /\ last'.ctx.mocks = 0
    /\ last'.status = "ok"
    /\ last'.trace # <<>>

C25_Step ==
    /\ regs' # regs =>
          /\ regop'.op = "provider.mock"
          /\ regs'[regop'.r] = regs[regop'.r]
          /\ regop'.result # regop'.r
          /\ map(regs'[regop'.result].entries, regop'.key) = regop'.provider
          /\ UNCHANGED <<heap, promises, cell, scopes, invoked>>
    /\ \A u \in Users :
          /\ last'.p \in Swapped =>
                /\ u \in SwapOnces => cell'[u] = cell[u]
                /\ u \in SwapScopeKeys =>
                      \A s \in Scopes : scopes'[s][u] = scopes[s][u]
          /\ RanUnmocked(u) => MadeBy(heap', promises', last'.ret, "vD")
          /\ RanUnmocked(SwappedOf(u)) =>
                MadeBy(heap', promises', last'.ret, "vR")

\* C25 - provider.mock(dep, replacement) returns a new provider and does not
\* change the receiver: the mock map of the receiver is the same before and
\* after, calls of the derived provider leave what the receiver remembers
\* alone, and whenever the resolver of the receiver runs in a call with no
\* mock map, before or after the derived provider was built and called, it
\* gets dep's own resolution, while the resolver of the derived provider
\* gets the replacement's.
C25_MockDerives == [][C25_Step]_vars

\* uS.mock(vD, vR) built uS.m, uS.m was called and remembers a value of vR,
\* and the last call, uS() with no mock map, ran the resolver of uS and
\* returned a value of vD; likewise a scoped receiver after its derived
\* provider filled the scope
C25_Witness ==
    /\ Built("uS.m")
    /\ cell["uS.m"].resolved
    /\ MadeBy(heap, promises, cell["uS.m"].resolution, "vR")
    /\ last.p = "uS" /\ last.ctx.mocks = 0 /\ last.status = "ok"
    /\ last.trace # <<>>
    /\ MadeBy(heap, promises, last.ret, "vD")

(***************************************************************************)
(* Partial mocks and the lifetime of the original (under SpecPartial).     *)
(***************************************************************************)
\* the registry of the call holds a Partial mock for p
PartiallyMocked(ctx, p) ==
    /\ HasEntry(ctx, p)
    /\ find(regs[ctx.mocks].entries, p).isPartial

\* what p remembers for the context ctx has been filled
Filled(p, ctx) ==
    IF Kind(p) = "singleton" THEN cell[p].resolved
    ELSE IF ctx.scope = NoScope THEN cell[singletonFallback(p)].resolved
    ELSE scopes[ctx.scope][p] # Absent

\* how many values p remembers: one for a singleton, one for every scope
\* and one for the fallback of a scoped provider
OwnRuns(p) ==
    IF Kind(p) = "singleton" THEN (IF cell[p].resolved THEN 1 ELSE 0)
    ELSE RunsFor(p)

C26_State ==
    \A p \in PartialProviders :
        Returns(p) =>
            /\ invoked[ResolverOf(p)] = OwnRuns(p)
            /\ (last.p = p /\ PartiallyMocked(last.ctx, p)) =>
                  /\ Filled(p, last.ctx)
                  /\ Ran(last.trace) \in {<<"mF">>, <<ResolverOf(p), "mF">>}
                  /\ last.trace[Len(last.trace)].ctx = last.ctx

C26_Step ==
    \A p \in PartialProviders, ctx \in PartialContexts :
        (/\ PartiallyMocked(ctx, p) /\ Filled(p, ctx)
         /\ PartialCall(p, ctx)) =>
            /\ Ran(last'.trace) = <<"mF">>
            /\ invoked'["mF"] = invoked["mF"] + 1
            /\ invoked'[ResolverOf(p)] = invoked[ResolverOf(p)]

\* C26 - A Partial mock keeps the lifetime of the original: for the
\* singleton pS, and for the scoped pC with one scope (or with none, through
\* its fallback), whose resolver returns, the calls under a Partial mock run
\* the resolver of the provider once for each value it remembers, the first
\* of them only, while every such call calls the replacement mF.
C26_PartialKeepsLifetime == []C26_State /\ [][C26_Step]_vars

\* the second call of pS under its Partial mock: the resolver of pS has run
\* once, mF in both calls
C26_Witness ==
    /\ last.p = "pS" /\ last.ctx = Context(NoScope, 1)
    /\ last.status = "ok"
    /\ Ran(last.trace) = <<"mF">>
    /\ invoked["pS"] = 1
    /\ invoked["mF"] = 2

\* the same for pC in the scope s1
C26_WitnessScoped ==
    /\ last.p = "pC" /\ last.ctx = Context("s1", 1)
    /\ last.status = "ok"
    /\ Ran(last.trace) = <<"mF">>
    /\ invoked["pC"] = 1
    /\ invoked["mF"] = 2

\* C27 - A Partial mock does not leak into later calls without mocks: a
\* call of the singleton pS or the scoped pC with no registry that returns
\* yields an object (or a promise of an object) whose fields are exactly
\* those the resolver of the provider created, whatever calls under a
\* Partial mock came before it.
C27_NoLeak ==
    \A p \in PartialProviders :
        (last.p = p /\ last.ctx.mocks = 0 /\ last.status = "ok") =>
            FieldsOf(heap, Awaited(last.ret)) = NewFields(ResolverOf(p))

(***************************************************************************)
(* The order of the invocations in a call under a Partial mock (Spec).     *)
(***************************************************************************)
C28_Step ==
    \A p \in Providers, ctx \in Contexts :
        LET original == wrapped(p, ctx, Current, MaxDepth)
        IN  (/\ Called(p, ctx) /\ PartiallyMocked(ctx, p)
             /\ original.status = "ok") =>
                /\ last'.trace =
                      original.st.trace \o <<[f |-> "mF", ctx |-> ctx]>>
                /\ \A n \in DOMAIN promises' \ DOMAIN promises :
                      promises'[n].state = "pending"
                /\ (last'.status = "ok" /\ IsPromise(last'.ret)) =>
                      /\ promises'[last'.ret.id].a = original.ret
                      /\ promises'[last'.ret.id].b.t \in {"obj", "promise"}

\* C28 - Partial-mock fan-out: a call under a Partial mock whose original
\* path returns invokes the original path and then the replacement mF, in
\* that order and within the one call, whether or not the original returned
\* a promise; every promise the call created is still pending when the call
\* returns, and the promise it returns joins the two resolutions.
C28_FanOut == [][C28_Step]_vars

\* pT and its Partial mock mF both ran, pT first, both returned promises,
\* and both are pending under the pending promise the call returned
C28_Witness ==
    /\ last.p = "pT" /\ last.ctx.mocks = 3
    /\ Ran(last.trace) = <<"pT", "mF">>
    /\ last.status = "ok" /\ IsPromise(last.ret)
    /\ promises[last.ret.id].state = "pending"
    /\ Pending(promises[last.ret.id].a)
    /\ Pending(promises[last.ret.id].b)

(***************************************************************************)
(* The invocations of a bulk call (under SpecBulk).                        *)
(***************************************************************************)
\* the call p(ctx) made after the calls r stands for, unless one threw
ThenCall(r, p, ctx) ==
    IF r.status # "ok" THEN r
    ELSE LET q == mockable(p, ctx, r.st, MaxDepth)
         IN  [st |-> q.st, status |-> q.status,
              rets |-> IF q.status = "ok" THEN Append(r.rets, q.ret)
                       ELSE <<>>]

\* the calls ps[1](ctx), ..., ps[n](ctx), one after the other
RECURSIVE InOrder(_, _, _)
InOrder(ps, ctx, n) ==
    IF n = 0 THEN [st |-> Current, status |-> "ok", rets |-> <<>>]
    ELSE ThenCall(InOrder(ps, ctx, n - 1), ps[n], ctx)

C29_Step ==
    \A ps \in BulkInputs, ctx \in BulkContexts :
        (bulk'.n = bulk.n + 1 /\ bulk'.ps = ps /\ bulk'.ctx = ctx) =>
            LET r == InOrder(ps, ctx, Len(ps))
            IN  /\ bulk'.status = r.status
                /\ bulk'.resolutions = r.rets
                /\ bulk'.trace = r.st.trace
                /\ bulk'.status = "ok" => Len(bulk'.resolutions) = Len(ps)
                /\ \A n \in DOMAIN bulk'.trace : bulk'.trace[n].ctx = ctx
                /\ heap' = r.st.heap /\ cell' = r.st.cell
                /\ scopes' = r.st.scopes /\ invoked' = r.st.invoked
                /\ SubSeq(promises', 1, Len(r.st.promises)) = r.st.promises
                /\ \A n \in DOMAIN promises' \ DOMAIN promises :
                      promises'[n].state = "pending"

\* C29 - Bulk invocation protocol: resolveList and resolveMap call the
\* providers of the collection one after the other in input order, each
\* once and each with the context of the bulk call, every provider when none
\* throws and up to the one that throws otherwise; all the calls are made
\* within the bulk call, so every promise they created is still pending
\* when the bulk call returns its own pending promise.
C29_BulkInvocations == [][C29_Step]_vars

\* a bulk call over <<pT, mF>> with a scope: both resolvers ran, pT first,
\* with the context of the bulk call, both returned promises that are still
\* pending, as is the promise of the bulk call
C29_Witness ==
    /\ bulk.ps = <<"pT", "mF">>
    /\ bulk.ctx = Context("s1", 0)
    /\ bulk.status = "ok"
    /\ bulk.trace = <<[f |-> "pT", ctx |-> bulk.ctx],
                      [f |-> "mF", ctx |-> bulk.ctx]>>
    /\ IsPromise(bulk.ret) /\ Pending(bulk.ret)
    /\ Pending(bulk.resolutions[1]) /\ Pending(bulk.resolutions[2])

(***************************************************************************)
(* Completion of the join of a bulk call (under SpecBulkFair).             *)
(***************************************************************************)
\* promises[n] is the promise a bulk call returned
IsJoin(n) == n \in DOMAIN promises /\ promises[n].kind = "all"
JoinEntries(n) == colls[promises[n].a.id].items
\* a bulk call creates one promise at most, a resolver invocation too
MaxPromises == MaxInvoked + MaxBulk

C30_State ==
    \A n \in DOMAIN promises :
        (IsJoin(n) /\ promises[n].state = "fulfilled") =>
            \A k \in DOMAIN JoinEntries(n) :
                /\ ~Pending(JoinEntries(n)[k])
                /\ ~Rejected(JoinEntries(n)[k])

C30_Step ==
    \A n \in DOMAIN promises :
        (IsJoin(n) /\ \E k \in DOMAIN JoinEntries(n) :
                          Pending(JoinEntries(n)[k])) =>
            promises'[n].state # "fulfilled"

C30_Live ==
    \A n \in 1..MaxPromises :
        (IsJoin(n) /\ \A k \in DOMAIN JoinEntries(n) :
                          Fulfilled(JoinEntries(n)[k]))
            ~> (IsJoin(n) /\ promises[n].state = "fulfilled")

\* C30 - Bulk join completion: the promise resolveList or resolveMap
\* returned is never fulfilled while one of its entries is pending (so it is
\* never fulfilled when an entry never settles), a fulfilled join has every
\* entry fulfilled, and once every entry is fulfilled the join is
\* eventually fulfilled.
C30_JoinCompletion == []C30_State /\ [][C30_Step]_vars /\ C30_Live

\* the join over <<pS, mF>> is fulfilled after the promises of both entries
\* were fulfilled
C30_Witness ==
    /\ bulk.ps = <<"pS", "mF">>
    /\ bulk.status = "ok" /\ IsPromise(bulk.ret)
    /\ IsPromise(bulk.resolutions[1]) /\ IsPromise(bulk.resolutions[2])
    /\ promises[bulk.ret.id].state = "fulfilled"
    /\ JoinEntries(bulk.ret.id) = bulk.resolutions

\* the join is pending with one entry fulfilled and the other pending
C30_WitnessWaiting ==
    /\ bulk.status = "ok" /\ IsPromise(bulk.ret)
    /\ Len(bulk.resolutions) = 2
    /\ IsPromise(bulk.resolutions[1]) /\ Fulfilled(bulk.resolutions[1])
    /\ Pending(bulk.resolutions[2])
    /\ Pending(bulk.ret)

(***************************************************************************)
(* A scoped provider reached several times in one resolution (SpecPaths).  *)
(***************************************************************************)
\* how often the resolver f occurs in a trace
RECURSIVE Occurrences(_, _)
Occurrences(trace, f) ==
    IF trace = <<>> THEN 0
    ELSE (IF Head(trace).f = f THEN 1 ELSE 0) + Occurrences(Tail(trace), f)

\* a root resolution with the scope s reached pC: its resolver ran once if
\* the scope had no entry and not at all otherwise, the entry of s is the
\* value it holds from then on, and the other scopes are as they were
OncePerScope(s, trace) ==
    /\ invoked'["pC"] - invoked["pC"] =
          (IF scopes[s]["pC"] # Absent THEN 0 ELSE 1)
    /\ Occurrences(trace, "pC") = invoked'["pC"] - invoked["pC"]
    /\ scopes[s]["pC"] # Absent => scopes'[s]["pC"] = scopes[s]["pC"]
    /\ Returns("pC") => scopes'[s]["pC"] # Absent
    /\ \A o \in Scopes \ {s} : scopes'[o] = scopes[o]

\* two calls in a row, of p then q, with the context ctx
TwoCalls(p, q, ctx) ==
    LET r1 == mockable(p, ctx, Current, MaxDepth)
        r2 == mockable(q, ctx, r1.st, MaxDepth)
    IN  r1.status = "ok" =>
            /\ r2.status = "ok"
            /\ r2.ret = r1.ret
            /\ r2.st.invoked = r1.st.invoked
            /\ r1.ret = r1.st.scopes[ctx.scope]["pC"]

C31_State ==
    \A ctx \in PathContexts :
        /\ TwoCalls("pC", "pC", ctx)
        /\ TwoCalls("pE", "pE2", ctx)

C31_Step ==
    /\ last' # last =>
          /\ OncePerScope(last'.ctx.scope, last'.trace)
          /\ last'.status = "ok" =>
                last'.ret = scopes'[last'.ctx.scope]["pC"]
    /\ bulk' # bulk =>
          /\ OncePerScope(bulk'.ctx.scope, bulk'.trace)
          /\ bulk'.status = "ok" =>
                \A n \in DOMAIN bulk'.resolutions :
                    bulk'.resolutions[n] = scopes'[bulk'.ctx.scope]["pC"]

\* C31 - One resolution per scope across multiple paths: when the scoped pC
\* is reached twice in one resolution with the scope s (twice by the
\* resolver of pJ, through the parents pE and pE2 by the resolver of pK, or
\* by resolveList over pC twice or over the two parents), the resolver of
\* pC runs once for s, in the first resolution that reaches it, and every
\* path gets the value the scope holds for pC.
C31_OncePerScope == []C31_State /\ [][C31_Step]_vars

\* pJ called with the scope s1: its resolver called pC twice, the resolver
\* of pC ran once, and the call returned the entry of s1
C31_Witness ==
    /\ last.p = "pJ" /\ last.ctx = Context("s1", 0)
    /\ last.status = "ok"
    /\ Ran(last.trace) = <<"pJ", "pC">>
    /\ last.ret = scopes["s1"]["pC"]
    /\ invoked["pC"] = 1

\* resolveList over the two parents with the scope s2, after s1 was filled
C31_WitnessList ==
    /\ bulk.ps = <<"pE", "pE2">> /\ bulk.ctx = Context("s2", 0)
    /\ bulk.status = "ok"
    /\ Ran(bulk.trace) = <<"pE", "pC", "pE2", "pE">>
    /\ bulk.resolutions = <<scopes["s2"]["pC"], scopes["s2"]["pC"]>>
    /\ scopes["s1"]["pC"] # Absent
    /\ invoked["pC"] = 2

(***************************************************************************)
(* Calls that overlap a pending first resolution (Spec).                   *)
(***************************************************************************)
C32_Step ==
    \A p \in {"pS", "pC"}, ctx \in Contexts :
        (/\ Called(p, ctx) /\ ~HasEntry(ctx, p)
         /\ Filled(p, ctx) /\ Pending(RememberedBy(p, ctx))) =>
            /\ last'.status = "ok"
            /\ last'.ret = RememberedBy(p, ctx)
            /\ last'.trace = <<>>
            /\ invoked' = invoked
            /\ promises' = promises
            /\ cell' = cell /\ scopes' = scopes

\* C32 - Overlapping asynchronous first accesses share one resolution: a
\* call of the singleton pS, or of the scoped pC with the same scope (or
\* again with none), made while the promise the first call got from the
\* resolver is still pending, does not run the resolver, creates no promise
\* and returns that same pending promise.
C32_SharedPending == [][C32_Step]_vars

\* the second call of pS found the promise of the first still pending and
\* returned it
C32_Witness ==
    /\ last.p = "pS" /\ ~HasEntry(last.ctx, "pS")
    /\ last.trace = <<>>
    /\ Pending(last.ret)
    /\ last.ret = cell["pS"].resolution
    /\ invoked["pS"] = 1

\* the same for pC with the scope s1
C32_WitnessScoped ==
    /\ last.p = "pC" /\ last.ctx = Context("s1", 0)
    /\ last.trace = <<>>
    /\ Pending(last.ret)
    /\ last.ret = scopes["s1"]["pC"]
    /\ invoked["pC"] = 1

(***************************************************************************)
(* The fallback of a scoped provider and the scopes (SpecFallback).        *)
(***************************************************************************)
\* the cell a scoped provider uses when it is called without a scope
FallbackCell(p) == IF p \in Globals THEN globalScope(p) ELSE singletonFallback(p)

NoCell == [resolved |-> FALSE, resolution |-> UndefinedV]

\* the call p(ctx) had the outcome r
Outcome(r) ==
    /\ last'.status = r.status
    /\ last'.ret = r.ret
    /\ Ran(last'.trace) = Ran(r.st.trace)

C33_State ==
    \A p \in FallbackProviders :
        Returns(ResolverOf(p)) =>
            invoked[ResolverOf(p)] =
                Cardinality(ScopesHolding(p)) +
                    (IF cell[FallbackCell(p)].resolved THEN 1 ELSE 0)

C33_Step ==
    \A p \in FallbackProviders, ctx \in Contexts :
        Called(p, ctx) =>
            IF ctx.scope = NoScope
            THEN /\ scopes' = scopes
                 /\ Outcome(mockable(p, ctx,
                        [Current EXCEPT !.scopes =
                            [s \in Scopes |-> [k \in ScopeKeys |-> Absent]]],
                        MaxDepth))
            ELSE /\ cell' = cell
                 /\ \A o \in Scopes \ {ctx.scope} : scopes'[o] = scopes[o]
                 /\ Outcome(mockable(p, ctx,
                        [Current EXCEPT !.cell =
                            [i \in Singletons |-> NoCell]],
                        MaxDepth))

C33_WitnessGlobal ==
    /\ last.p = "pG" /\ last.ctx = Context("s1", 0)
    /\ last.status = "ok"
    /\ Ran(last.trace) = <<"rG">>
    /\ cell["pG.gs"].resolved
    /\ invoked["rG"] = 2

(***************************************************************************)
(* C34                                                                     *)
(***************************************************************************)
\* the step is the call i(scope) of a provider of the build of part_002
ValuedCalled(i, scope) ==
    last'.p = i /\ last'.ctx = Context(scope, 0) /\ ValuedCall(i, scope)

\* the step ran no resolver and returned v
ServedFromCache(v) == invoked' = invoked /\ last'.ret = v

\* the singleton and the scoped provider of src/src/provider.ts
C34_StepProvider ==
    /\ \A ctx \in FalsyContexts :
          Called("pS", ctx) /\ invoked["pS"] > 0
              => ServedFromCache(cell["pS"].resolution)
    /\ \A s \in Scopes :
          Called("pC", Context(s, 0)) /\ scopes[s]["pC"] # Absent
              => ServedFromCache(scopes[s]["pC"])

\* the singleton and the scoped provider of src/unnamed/part_002
C34_StepProvide ==
    /\ \A s \in Scopes \cup {NoScope} :
          ValuedCalled("vO", s) /\ invoked["vO"] > 0
              => ServedFromCache(cell["vO"].resolution)
    /\ \A s \in Scopes :
          ValuedCalled("vC", s) /\ scopes[s]["vC"] # Absent
              => ServedFromCache(scopes[s]["vC"])

\* C34 - Caching does not depend on the truthiness of the value: once a
\* singleton provider has run its resolver, and once a scoped provider has
\* run its resolver for a scope, every later call (with that scope) runs no
\* resolver and returns the value the first call returned, also when that
\* value is 0, "", false, null or undefined.
C34_FalsyCached == [][C34_StepProvider /\ C34_StepProvide]_vars

\* the part of C34 about src/src/provider.ts alone
C34_ProviderBuild == [][C34_StepProvider]_vars

(***************************************************************************)
(* C35                                                                     *)
(***************************************************************************)
\* the memory of its own the call p(ctx) may write outside every scope
OwnCell(p, ctx) ==
    CASE Kind(p) = "singleton" -> {p}
      [] Kind(p) = "scoped" /\ ctx.scope = NoScope -> {singletonFallback(p)}
      [] OTHER -> {}

\* the call leaves the context and the registries as they were and writes
\* no memory but its own
C35_Bookkeeping(p, ctx) ==
    /\ last'.ctx = ctx
    /\ regs' = regs
    /\ \A i \in Singletons : cell'[i] # cell[i] => i \in OwnCell(p, ctx)
    /\ \A s \in Scopes, k \in ScopeKeys :
          scopes'[s][k] # scopes[s][k]
              => Kind(p) = "scoped" /\ s = ctx.scope /\ k = p

\* the call writes no object that existed before it
C35_Objects == \A n \in DOMAIN heap : heap'[n] = heap[n]

\* C35 - Frame of a provider call: a call p(ctx) assigns no field of the
\* context and changes no registry; it writes nothing but the singleton
\* memory of p and, when p is scoped and ctx has a scope, the entry of p in
\* that scope (so a transient or singleton provider leaves every scope as
\* it was), and no object that existed before the call.
C35_Frame ==
    [][\A p \in Providers, ctx \in Contexts :
          Called(p, ctx) => C35_Bookkeeping(p, ctx) /\ C35_Objects]_vars

\* the part of C35 about the context, the registries, the singleton
\* memories and the scopes
C35_FrameOfStores ==
    [][\A p \in Providers, ctx \in Contexts :
          Called(p, ctx) => C35_Bookkeeping(p, ctx)]_vars

(***************************************************************************)
(* C36                                                                     *)
(***************************************************************************)
\* no two entries of the array have the same key
UniqueKeys(entries) ==
    \A n, m \in DOMAIN entries : entries[n].key = entries[m].key => n = m

\* the step registered a key the receiver already held
ReRegistered ==
    /\ regop' # regop
    /\ regop'.op \in {"set", "add", "mock", "mockPartially"}
    /\ regop'.key \in EntryKeys(regs[regop'.r].entries)

C36_Step ==
    ReRegistered =>
        Len(regs'[regop'.result].entries) = Len(regs[regop'.r].entries)

\* C36 - Unique keys in a registry: every registry derived from an empty
\* one by set / add / mock / mockPartially and merge / apply holds at most
\* one entry per original provider, and registering a key the receiver
\* already holds yields a registry with as many entries as the receiver.
C36_UniqueKeys ==
    /\ [](\A r \in DOMAIN regs : UniqueKeys(regs[r].entries))
    /\ [][C36_Step]_vars

\* the part of C36 about createMocks and createImmutableMap
C36_UniqueKeysOfMaps ==
    /\ [](\A r \in DOMAIN regs :
             regs[r].kind # "MockMap" => UniqueKeys(regs[r].entries))
    /\ [][regs[1].kind # "MockMap" => C36_Step]_vars

(***************************************************************************)
(* C37                                                                     *)
(***************************************************************************)
\* the Full mock the registry of ctx holds for i, if any
FullMockOf(ctx, i) ==
    {e.provider : e \in {regs[ctx.mocks].entries[n] :
                            n \in {k \in DOMAIN regs[ctx.mocks].entries :
                                      /\ regs[ctx.mocks].entries[k].key = i
                                      /\ ~regs[ctx.mocks].entries[k].isPartial}}}

\* the providers the call i(ctx) calls with ctx: its replacement if the
\* registry holds one, or else those its own resolver calls
CallsOf(ctx, i) ==
    IF FullMockOf(ctx, i) # {} THEN FullMockOf(ctx, i)
    ELSE IF i \in Forwarders THEN {Dependency(i)} ELSE {}

\* the providers called in n steps or fewer from those of S
RECURSIVE CalledFrom(_, _, _)
CalledFrom(ctx, S, n) ==
    IF n = 0 THEN S
    ELSE CalledFrom(ctx, S \cup UNION {CallsOf(ctx, i) : i \in S}, n - 1)

ReachableFrom(ctx, p) == CalledFrom(ctx, {p}, Cardinality(AllProviders))

\* no provider the call p(ctx) reaches is called again below itself: no
\* cycle of replacements, and no resolver of a replacement that comes back
\* to a provider being replaced
Acyclic(ctx, p) ==
    \A i \in ReachableFrom(ctx, p) :
        i \notin CalledFrom(ctx, CallsOf(ctx, i), Cardinality(AllProviders))

\* the registry replaces p by m and m by n, and n by nothing
IsChain(ctx, p, m, n) ==
    /\ FullMockOf(ctx, p) = {m}
    /\ FullMockOf(ctx, m) = {n}
    /\ ~HasEntry(ctx, n)
    /\ p # m /\ m # n /\ p # n

C37_Step ==
    \A p \in ChainProviders, ctx \in ChainContexts :
        Called(p, ctx) =>
            /\ \A m, n \in ChainProviders :
                  IsChain(ctx, p, m, n) /\ Acyclic(ctx, p) =>
                      /\ SameOutcome(wrapped(n, ctx, Current, MaxDepth))
                      /\ invoked'[ResolverOf(p)] = invoked[ResolverOf(p)]
                      /\ invoked'[ResolverOf(m)] = invoked[ResolverOf(m)]
            /\ Acyclic(ctx, p) => last'.status # "overflow"

C37_WitnessResolver ==
    /\ last.p = "pT"
    /\ last.ctx.mocks = 4
    /\ last.status = "ok"
    /\ Ran(last.trace) = <<"pE", "pC">>

\* where a provider is reached again below itself the call does not end
C37_Diverges ==
    [][\A p \in ChainProviders, ctx \in ChainContexts :
          Called(p, ctx) /\ ~Acyclic(ctx, p) => last'.status = "overflow"]_vars

\* a call through a cycle of replacements, and one through a replacement
\* whose resolver comes back, did not end
C37_WitnessCycle ==
    /\ last.p = "pT"
    /\ last.ctx.mocks \in {2, 5}
    /\ last.status = "overflow"

(***************************************************************************)
(* C38                                                                     *)
(***************************************************************************)
\* the step is the call o(...args) of a wrapped function
OnceCalled(o, args) == last'.p = o /\ last'.ctx = args /\ OnceCall(o, args)

\* the first call runs fn with its arguments and returns what fn returned;
\* every later call runs nothing and returns what the call before returned
C38_Step(o) ==
    \A args \in OnceArgs :
        OnceCalled(o, args) /\ Returns(o) =>
            IF invoked[o] = 0
            THEN /\ invoked'[o] = 1
                 /\ last'.trace = <<[f |-> o, args |-> args]>>
                 /\ last'.ret = FnResult(o, args)
            ELSE /\ invoked' = invoked
                 /\ last'.ret = last.ret

\* C38 - once(fn): in every sequence of calls of the wrapped function, with
\* whatever arguments, fn runs at most once, in the first call and with the
\* arguments of the first call, and every call returns what that run
\* returned, also when it returned undefined or null (fn returns; a run
\* that throws leaves nothing to return).
C38_Once == [][\A o \in Onces : C38_Step(o)]_vars

\* the part of C38 about once of src/src/helpers.ts
C38_OnceOfHelpers == [][C38_Step("oF")]_vars

\* the wrapped function of src/src/helpers.ts returned null or undefined a
\* second time without a second run of fn
C38_WitnessHelpers ==
    /\ last.p = "oF"
    /\ behaviour["oF"] = "nullish"
    /\ invoked["oF"] = 1
    /\ last.trace = <<>>
    /\ last.ret = NullV

====
